---- MODULE Spec2Model ----
(***************************************************************************)
(* A model of the Doorkey interpreter (tmoore2016/interpreter, lib/...):   *)
(* the object system and environment chain (lib/object), the tree-walking  *)
(* evaluator (lib/evaluator) and the Pratt parser (lib/parser).            *)
(*                                                                         *)
(* Conventions.  Every Go struct is a record.  TLC cannot compare two      *)
(* records that hold values of different kinds under one field name, so a  *)
(* field name always holds one kind of value: Integer.Value is `Value`,    *)
(* Boolean.Value is `BoolValue`, String.Value is `StrValue` (a sequence of *)
(* byte codes), ReturnValue.Value is `Inner`, Identifier.Value is `Name`.  *)
(* A Go pointer to an Array, Hash, Function or ReturnValue is the `id` the *)
(* object got when it was allocated; an *Environment is its index in       *)
(* `heap`.  The Go nil interface value is NIL, and a Go run-time panic     *)
(* (nil dereference, index out of range, division by zero, stack           *)
(* exhaustion) is a PANIC value that unwinds the whole evaluation.         *)
(***************************************************************************)
EXTENDS Integers, Sequences, FiniteSets, TLC

VARIABLES
    program,    \* evalProgram: program.Statements
    idx,        \* evalProgram: number of statements the loop has evaluated
    result,     \* evalProgram: the local `result` (raw value of the last statement)
    returned,   \* evalProgram: the value the function returned (Pending before)
    pc,         \* evalProgram: "loop", "done" (returned) or "panic" (crashed)
    heap,       \* every *object.Environment allocated so far; heap[1] is env
    nextId,     \* allocation counter: the identity of the next object
    out,        \* objects whose Inspect() the puts builtin wrote to stdout
    tokens,     \* Parser: the tokens the lexer yields before EOF
    pos,        \* Parser: position of curToken in tokens (peekToken is the next)
    errors,     \* Parser: p.errors
    lexer       \* Lexer: the fields of the Lexer (tokens: the tokens it has returned)

evalVars == <<idx, result, returned, heap, nextId, out>>
parseVars == <<tokens, pos, errors, lexer>>
vars == <<program, pc, evalVars, parseVars>>

----------------------------------------------------------------------------
(* lib/token/token.go and lib/lexer/lexer.go.  A byte is a string of one    *)
(* character, the byte 0 is NUL; a string is the sequence of its bytes.     *)
(* A Lexer l is the record of its fields; positions count from 0 as in Go.  *)

Token(type, literal) == [Type |-> type, Literal |-> literal]

(* the token the lexer hands out at, and for ever after, the end of input *)
EOFToken == Token("EOF", <<>>)

(* string(literal) *)
RECURSIVE JoinChars(_)
JoinChars(literal) ==
    IF literal = <<>> THEN "" ELSE Head(literal) \o JoinChars(Tail(literal))

NUL == "NUL"

keywords ==
    [ident \in {"fn", "let", "true", "false", "if", "else", "return"} |->
        CASE ident = "fn" -> "FUNCTION"
          [] ident = "let" -> "LET"
          [] ident = "true" -> "TRUE"
          [] ident = "false" -> "FALSE"
          [] ident = "if" -> "IF"
          [] ident = "else" -> "ELSE"
          [] ident = "return" -> "RETURN"]

LookupIdent(ident) == IF ident \in DOMAIN keywords THEN keywords[ident] ELSE "IDENT"

readChar(l) ==
    [l EXCEPT !.ch = IF l.readPosition >= Len(l.input) THEN NUL
                     ELSE l.input[l.readPosition + 1],
              !.position = l.readPosition,
              !.readPosition = l.readPosition + 1]

NewLexer(input) == readChar([input |-> input, position |-> 0, readPosition |-> 0, ch |-> NUL])

peekChar(l) == IF l.readPosition >= Len(l.input) THEN NUL ELSE l.input[l.readPosition + 1]

RECURSIVE skipWhitespace(_)
skipWhitespace(l) ==
    IF l.ch \in {" ", "\t", "\n", "\r"} THEN skipWhitespace(readChar(l)) ELSE l

isLetter(ch) ==
    ch \in {"a", "b", "c", "d", "e", "f", "g", "h", "i", "j", "k", "l", "m",
            "n", "o", "p", "q", "r", "s", "t", "u", "v", "w", "x", "y", "z",
            "A", "B", "C", "D", "E", "F", "G", "H", "I", "J", "K", "L", "M",
            "N", "O", "P", "Q", "R", "S", "T", "U", "V", "W", "X", "Y", "Z",
            "_", "$"}

isDigit(ch) == ch \in {"0", "1", "2", "3", "4", "5", "6", "7", "8", "9"}

newToken(tokenType, ch) == Token(tokenType, <<ch>>)

(* l.input[from:l.position] and the lexer that has read it *)
Slice(input, from, l) == [Literal |-> SubSeq(input, from + 1, l.position), l |-> l]

readIdentifier(l) ==
    LET RECURSIVE Loop(_)
        Loop(x) == IF isLetter(x.ch) THEN Loop(readChar(x)) ELSE x
    IN  Slice(l.input, l.position, Loop(l))

readNumber(l) ==
    LET RECURSIVE Loop(_)
        Loop(x) == IF isDigit(x.ch) THEN Loop(readChar(x)) ELSE x
    IN  Slice(l.input, l.position, Loop(l))

readString(l) ==
    LET RECURSIVE Loop(_)
        Loop(x) == IF x.ch = "\"" \/ x.ch = NUL THEN x ELSE Loop(readChar(x))
    IN  Slice(l.input, l.position + 1, Loop(readChar(l)))

(* Yields [tok, l]: the token returned and the lexer left behind *)
NextToken(l0) ==
    LET return(tok, l) == [tok |-> tok, l |-> l]
        read(type, r) == [tok |-> Token(type, r.Literal), l |-> r.l]
        ident(r) == read(LookupIdent(JoinChars(r.Literal)), r)
        two(type, l, l2) == return(Token(type, <<l.ch, l2.ch>>), readChar(l2))
        switch(l) ==
            CASE l.ch = "=" ->
                    IF peekChar(l) = "=" THEN two("==", l, readChar(l))
                    ELSE return(newToken("=", l.ch), readChar(l))
              [] l.ch = "!" ->
                    IF peekChar(l) = "=" THEN two("!=", l, readChar(l))
                    ELSE return(newToken("!", l.ch), readChar(l))
              [] l.ch \in {"(", ")", ";", ",", "+", "-", "/", "*", "<", ">", "{", "}", "[", "]"} ->
                    return(newToken(l.ch, l.ch), readChar(l))
              [] l.ch = "\"" ->
                    LET string(r) == return(Token("STRING", r.Literal), readChar(r.l))
                    IN  string(readString(l))
              [] l.ch = NUL -> return(Token("EOF", <<>>), readChar(l))
              [] OTHER ->
                    IF isLetter(l.ch) THEN ident(readIdentifier(l))
                    ELSE IF isDigit(l.ch) THEN read("INT", readNumber(l))
                    ELSE return(newToken("ILLEGAL", l.ch), readChar(l))
    IN  switch(skipWhitespace(l0))

----------------------------------------------------------------------------
(* lib/object/object.go: the value variants *)

NIL == [Type |-> "nil"]
Pending == [Type |-> "pending"]
Panic(msg) == [Type |-> "panic", Message |-> msg]
NULL == [Type |-> "NULL"]
TRUEOBJ == [Type |-> "BOOLEAN", BoolValue |-> TRUE]
FALSEOBJ == [Type |-> "BOOLEAN", BoolValue |-> FALSE]
Integer(n) == [Type |-> "INTEGER", Value |-> n]
String(s) == [Type |-> "STRING", StrValue |-> s]
Array(elements, id) == [Type |-> "ARRAY", Elements |-> elements, id |-> id]
HashObj(pairs, id) == [Type |-> "HASH", Pairs |-> pairs, id |-> id]
ReturnValue(v, id) == [Type |-> "RETURN_VALUE", Inner |-> v, id |-> id]
Function(params, body, env, id) ==
    [Type |-> "FUNCTION", Parameters |-> params, Body |-> body, Env |-> env, id |-> id]
Builtin(name) == [Type |-> "BUILTIN", Name |-> name]
newError(msg) == [Type |-> "ERROR", Message |-> msg]

IsPanic(v) == v.Type = "panic"

(* A variant of isError that recognises no Error *)
NeverError(obj) == FALSE

isError(obj) == IF obj # NIL THEN obj.Type = "ERROR" ELSE FALSE

nativeBoolToBooleanObject(input) == IF input THEN TRUEOBJ ELSE FALSEOBJ

(* A Go comparison of two interface values holding pointers: true exactly  *)
(* when both hold the same object.  TRUE, FALSE and NULL are singletons,   *)
(* builtins are the entries of one table, every other object is what its   *)
(* allocation made; an Integer or String is a fresh object each time.      *)
SamePointer(left, right) ==
    /\ left.Type = right.Type
    /\ CASE left.Type \in {"nil", "NULL"} -> TRUE
         [] left.Type = "BOOLEAN" -> left.BoolValue = right.BoolValue
         [] left.Type = "BUILTIN" -> left.Name = right.Name
         [] left.Type \in {"ARRAY", "HASH", "FUNCTION", "RETURN_VALUE"} -> left.id = right.id
         [] OTHER -> FALSE

----------------------------------------------------------------------------
(* lib/object/environment.go *)

EmptyStore == [n \in {} |-> NIL]

NewEnvironment == [store |-> EmptyStore, outer |-> 0]

(* The heap with a new frame enclosed by `outer`; the new frame is the last. *)
NewEnclosedEnvironment(h, outer) == Append(h, [NewEnvironment EXCEPT !.outer = outer])

(* A variant of Get that looks in the frame itself only *)
getOwn(h, e, name) ==
    IF name \in DOMAIN h[e].store
    THEN [obj |-> h[e].store[name], ok |-> TRUE]
    ELSE [obj |-> NIL, ok |-> FALSE]

RECURSIVE Get(_, _, _)
Get(h, e, name) ==
    IF name \in DOMAIN h[e].store
    THEN [obj |-> h[e].store[name], ok |-> TRUE]
    ELSE IF h[e].outer # 0
         THEN Get(h, h[e].outer, name)
         ELSE [obj |-> NIL, ok |-> FALSE]

(* A variant of Set that writes in the outermost frame *)
setOutermost(h, e, name, val) ==
    [h EXCEPT ![1].store =
        [n \in DOMAIN h[1].store \cup {name} |-> IF n = name THEN val ELSE h[1].store[n]]]

Set(h, e, name, val) ==
    [h EXCEPT ![e].store =
        [n \in DOMAIN h[e].store \cup {name} |-> IF n = name THEN val ELSE h[e].store[n]]]

----------------------------------------------------------------------------
(* lib/object/object.go: HashKey.  A uint64 is four 16-bit limbs, least     *)
(* significant first, so that the 64-bit arithmetic of hash/fnv is exact.   *)

Limb == 65536

U64(l0, l1, l2, l3) == <<l0, l1, l2, l3>>

(* uint64(i) of an int64 i: two's complement for a negative i *)
U64FromInt64(i) ==
    IF i >= 0
    THEN U64(i % Limb, (i \div Limb) % Limb, 0, 0)
    ELSE LET m == -(i + 1)   \* 2^64 + i = (2^64 - 1) - m
         IN  U64((Limb - 1) - (m % Limb), (Limb - 1) - ((m \div Limb) % Limb),
                 Limb - 1, Limb - 1)

(* the sum of the limb-wise values in `raw` (each below 2^30), modulo 2^64 *)
U64Normalize(raw) ==
    LET c0 == raw[1] \div Limb
        s1 == raw[2] + c0
        c1 == s1 \div Limb
        s2 == raw[3] + c1
        c2 == s2 \div Limb
        s3 == raw[4] + c2
    IN  U64(raw[1] % Limb, s1 % Limb, s2 % Limb, s3 % Limb)

RECURSIVE BitXor(_, _)
BitXor(a, b) ==
    IF a = 0 THEN b
    ELSE IF b = 0 THEN a
    ELSE (((a % 2) + (b % 2)) % 2) + 2 * BitXor(a \div 2, b \div 2)

(* hash/fnv: hash *= prime64, prime64 = 2^40 + 0x1B3 *)
FnvMulPrime(h) ==
    U64Normalize(<<h[1] * 435,
                   h[2] * 435,
                   h[3] * 435 + h[1] * 256,
                   h[4] * 435 + h[2] * 256>>)

FnvOffset64 == U64(8997, 33826, 40164, 52210)   \* 0xcbf29ce484222325

(* hash/fnv New64a().Write(bytes).Sum64(): for each byte, xor then multiply *)
(* `sum` is the pair of the hash so far and the bytes still to write *)
Fnv64a(h, bytes) ==
    LET RECURSIVE Write(_)
        Write(sum) ==
            IF sum[2] = <<>> THEN sum[1]
            ELSE Write(<<FnvMulPrime(U64(BitXor(sum[1][1], Head(sum[2])),
                                         sum[1][2], sum[1][3], sum[1][4])),
                         Tail(sum[2])>>)
    IN  Write(<<h, bytes>>)

Hashable(obj) == obj.Type \in {"INTEGER", "BOOLEAN", "STRING"}

HashKey(obj) ==
    CASE obj.Type = "BOOLEAN" ->
            [KeyType |-> obj.Type, KeyValue |-> IF obj.BoolValue THEN U64(1, 0, 0, 0) ELSE U64(0, 0, 0, 0)]
      [] obj.Type = "INTEGER" ->
            [KeyType |-> obj.Type, KeyValue |-> U64FromInt64(obj.Value)]
      [] obj.Type = "STRING" ->
            [KeyType |-> obj.Type, KeyValue |-> Fnv64a(FnvOffset64, obj.StrValue)]

HashPair(key, value) == [Key |-> key, PairValue |-> value]

EmptyPairs == [k \in {} |-> NIL]

(* pairs[hashed] = pair *)
PutPair(pairs, hashed, pair) ==
    [k \in DOMAIN pairs \cup {hashed} |-> IF k = hashed THEN pair ELSE pairs[k]]

----------------------------------------------------------------------------
(* lib/ast/ast.go: the node variants.  A parameter is its name; a missing   *)
(* node (a nil Expression or *BlockStatement) is NilNode.                   *)

(* fmt's %d of a non-negative int *)
RECURSIVE Itoa(_)
Itoa(n) ==
    LET digit == <<"0", "1", "2", "3", "4", "5", "6", "7", "8", "9">>
    IN  IF n < 10 THEN digit[n + 1] ELSE Itoa(n \div 10) \o digit[(n % 10) + 1]

NilNode == [node |-> "nil"]
(* Literal is Token.Literal, the digits the literal was written with *)
IntegerLiteral(n) == [node |-> "IntegerLiteral", Value |-> n, Literal |-> Itoa(n)]
StringLiteral(s) == [node |-> "StringLiteral", StrValue |-> s]
Boolean(b) == [node |-> "Boolean", BoolValue |-> b]
Identifier(name) == [node |-> "Identifier", Name |-> name]
PrefixExpression(op, right) == [node |-> "PrefixExpression", Operator |-> op, Right |-> right]
InfixExpression(left, op, right) ==
    [node |-> "InfixExpression", Left |-> left, Operator |-> op, Right |-> right]
BlockStatement(stmts) == [node |-> "BlockStatement", Statements |-> stmts]
IfExpression(cond, cons, alt) ==
    [node |-> "IfExpression", Condition |-> cond, Consequence |-> cons, Alternative |-> alt]
FunctionLiteral(params, body) == [node |-> "FunctionLiteral", Parameters |-> params, Body |-> body]
CallExpression(fn, args) == [node |-> "CallExpression", Function |-> fn, Arguments |-> args]
ArrayLiteral(elements) == [node |-> "ArrayLiteral", Elements |-> elements]
IndexExpression(left, index) == [node |-> "IndexExpression", Left |-> left, Index |-> index]
HashLiteral(pairs) == [node |-> "HashLiteral", PairNodes |-> pairs]
LetStatement(name, value) == [node |-> "LetStatement", Name |-> name, Expr |-> value]
(* a nil *LetStatement held in a Statement: the interface value is not nil *)
NilLetStatement == [node |-> "LetStatement", Nil |-> TRUE]
ReturnStatement(value) == [node |-> "ReturnStatement", Expr |-> value]
ExpressionStatement(e) == [node |-> "ExpressionStatement", Expr |-> e]

----------------------------------------------------------------------------
(* lib/evaluator/evaluator.go: the helpers that do not evaluate a node *)

NilDereference == Panic("invalid memory address or nil pointer dereference")

evalNotOperatorExpression(right) ==
    CASE right = TRUEOBJ -> FALSEOBJ
      [] right = FALSEOBJ -> TRUEOBJ
      [] right = NULL -> TRUEOBJ
      [] OTHER -> FALSEOBJ

evalMinusPrefixOperatorExpression(right) ==
    IF right = NIL THEN NilDereference
    ELSE IF right.Type # "INTEGER"
    THEN newError("Illegal prefix operation, expected integer, received: -" \o right.Type)
    ELSE Integer(-right.Value)

evalPrefixExpression(operator, right) ==
    CASE operator = "!" -> evalNotOperatorExpression(right)
      [] operator = "-" -> evalMinusPrefixOperatorExpression(right)
      [] OTHER -> IF right = NIL THEN NilDereference
                  ELSE newError("Illegal prefix operator: " \o operator \o right.Type)

(* Go's integer division truncates toward zero *)
Quotient(a, b) ==
    LET abs(x) == IF x < 0 THEN -x ELSE x
        q == abs(a) \div abs(b)
    IN  IF (a < 0) = (b < 0) THEN q ELSE -q

evalIntegerInfixExpression(operator, left, right) ==
    LET leftVal == left.Value
        rightVal == right.Value
    IN  CASE operator = "+" -> Integer(leftVal + rightVal)
          [] operator = "-" -> Integer(leftVal - rightVal)
          [] operator = "*" -> Integer(leftVal * rightVal)
          [] operator = "/" -> IF rightVal = 0 THEN Panic("integer divide by zero")
                               ELSE Integer(Quotient(leftVal, rightVal))
          [] operator = "<" -> nativeBoolToBooleanObject(leftVal < rightVal)
          [] operator = ">" -> nativeBoolToBooleanObject(leftVal > rightVal)
          [] operator = "==" -> nativeBoolToBooleanObject(leftVal = rightVal)
          [] operator = "!=" -> nativeBoolToBooleanObject(leftVal # rightVal)
          [] OTHER -> newError("Invalid Infix Expression operator, expected ('+' , '-', '*', '/', '<', '>', '==', '!='),/n received: "
                               \o left.Type \o " " \o operator \o " " \o right.Type)

evalStringInfixExpression(operator, left, right) ==
    IF operator # "+"
    THEN newError("Invalid operator: " \o left.Type \o " " \o operator \o " " \o right.Type)
    ELSE String(left.StrValue \o right.StrValue)

(* A variant of evalInfixExpression that tests the operand types before  *)
(* the operators == and !=                                                *)
typeMismatchFirst(operator, left, right) ==
    CASE left = NIL -> NilDereference
      [] left # NIL /\ right = NIL -> NilDereference
      [] left # NIL /\ right # NIL /\ left.Type = "INTEGER" /\ right.Type = "INTEGER" ->
            evalIntegerInfixExpression(operator, left, right)
      [] left # NIL /\ right # NIL /\ left.Type = "STRING" /\ right.Type = "STRING" ->
            evalStringInfixExpression(operator, left, right)
      [] OTHER ->
            IF left.Type # right.Type
            THEN newError("type mismatch: " \o left.Type \o " " \o operator \o " " \o right.Type)
            ELSE IF operator = "==" THEN nativeBoolToBooleanObject(SamePointer(left, right))
            ELSE IF operator = "!=" THEN nativeBoolToBooleanObject(~SamePointer(left, right))
            ELSE newError("Illegal infix expression, expected integer-operator-integer, received: "
                          \o left.Type \o " " \o operator \o " " \o right.Type)

(* The switch calls left.Type() first and right.Type() only when the left   *)
(* half of a && holds, so a nil operand panics exactly where Go reaches it. *)
evalInfixExpression(operator, left, right) ==
    CASE left = NIL -> NilDereference
      [] left # NIL /\ left.Type \in {"INTEGER", "STRING"} /\ right = NIL -> NilDereference
      [] left # NIL /\ right # NIL /\ left.Type = "INTEGER" /\ right.Type = "INTEGER" ->
            evalIntegerInfixExpression(operator, left, right)
      [] left # NIL /\ right # NIL /\ left.Type = "STRING" /\ right.Type = "STRING" ->
            evalStringInfixExpression(operator, left, right)
      [] OTHER ->
            IF operator = "==" THEN nativeBoolToBooleanObject(SamePointer(left, right))
            ELSE IF operator = "!=" THEN nativeBoolToBooleanObject(~SamePointer(left, right))
            ELSE IF right = NIL THEN NilDereference
            ELSE IF left.Type # right.Type
            THEN newError("type mismatch: " \o left.Type \o " " \o operator \o " " \o right.Type)
            ELSE newError("Illegal infix expression, expected integer-operator-integer, received: "
                          \o left.Type \o " " \o operator \o " " \o right.Type)

(* A variant of isTruthy in which the Integer 0 is falsy as well *)
zeroIsFalsy(obj) ==
    CASE obj = NULL -> FALSE
      [] obj = TRUEOBJ -> TRUE
      [] obj = FALSEOBJ -> FALSE
      [] obj = Integer(0) -> FALSE
      [] OTHER -> TRUE

isTruthy(obj) ==
    CASE obj = NULL -> FALSE
      [] obj = TRUEOBJ -> TRUE
      [] obj = FALSEOBJ -> FALSE
      [] OTHER -> TRUE

(* A variant of evalArrayIndexExpression that takes the last position to *)
(* be outside the array                                                   *)
lastIsOutside(array, index) ==
    LET idxv == index.Value
        max == Len(array.Elements) - 1
    IN  IF idxv < 0 \/ idxv >= max THEN NULL ELSE array.Elements[idxv + 1]

evalArrayIndexExpression(array, index) ==
    LET idxv == index.Value
        max == Len(array.Elements) - 1
    IN  IF idxv < 0 \/ idxv > max THEN NULL ELSE array.Elements[idxv + 1]

evalHashIndexExpression(hash, index) ==
    IF index = NIL THEN NilDereference
    ELSE IF ~Hashable(index) THEN newError("Unusable as hash key: " \o index.Type)
    ELSE IF HashKey(index) \notin DOMAIN hash.Pairs THEN NULL
    ELSE hash.Pairs[HashKey(index)].PairValue

evalIndexExpression(left, index) ==
    CASE left = NIL -> NilDereference
      [] left # NIL /\ left.Type = "ARRAY" /\ index = NIL -> NilDereference
      [] left # NIL /\ index # NIL /\ left.Type = "ARRAY" /\ index.Type = "INTEGER" ->
            evalArrayIndexExpression(left, index)
      [] OTHER ->
            IF left.Type = "HASH" THEN evalHashIndexExpression(left, index)
            ELSE newError("Index operator not supported: " \o left.Type)

unwrapReturnValue(obj) == IF obj.Type = "RETURN_VALUE" THEN obj.Inner ELSE obj

----------------------------------------------------------------------------
(* The state an evaluation threads through its calls: the environments, the *)
(* allocation counter, stdout, the depth of the Go call stack in user-      *)
(* function calls, and `ord`, the order in which this evaluation's `range`  *)
(* over a map visits the entries (Go leaves it unspecified).  An evaluation *)
(* yields [val, st]: the object Eval returns and the state it leaves.       *)

Ret(v, st) == [val |-> v, st |-> st]

(* &object.X{...}: the object takes the next identity *)
Alloc(st) == [st EXCEPT !.nextId = @ + 1]

----------------------------------------------------------------------------
(* lib/evaluator/builtins.go *)

BuiltinNames == {"puts", "len", "first", "last", "tail", "push"}

wrongArguments(got, want) ==
    newError("wrong number of arguments. got=" \o Itoa(got) \o ", want=" \o want)

(* Whether obj.Inspect() dereferences a nil object *)
RECURSIVE InspectPanics(_)
InspectPanics(obj) ==
    CASE obj = NIL -> TRUE
      [] obj.Type = "RETURN_VALUE" -> InspectPanics(obj.Inner)
      [] obj.Type = "ARRAY" -> \E i \in DOMAIN obj.Elements : InspectPanics(obj.Elements[i])
      [] obj.Type = "HASH" ->
            \E k \in DOMAIN obj.Pairs :
                InspectPanics(obj.Pairs[k].Key) \/ InspectPanics(obj.Pairs[k].PairValue)
      [] OTHER -> FALSE

RECURSIVE builtinPuts(_, _)
builtinPuts(args, st) ==
    IF args = <<>> THEN Ret(NULL, st)
    ELSE IF InspectPanics(Head(args)) THEN Ret(NilDereference, st)
    ELSE builtinPuts(Tail(args), [st EXCEPT !.out = Append(@, Head(args))])

builtinLen(args, st) ==
    IF Len(args) # 1 THEN Ret(wrongArguments(Len(args), "1"), st)
    ELSE IF args[1] = NIL THEN Ret(NilDereference, st)
    ELSE IF args[1].Type = "ARRAY" THEN Ret(Integer(Len(args[1].Elements)), st)
    ELSE IF args[1].Type = "STRING" THEN Ret(Integer(Len(args[1].StrValue)), st)
    ELSE Ret(newError("argument to 'len' not supported, got " \o args[1].Type), st)

builtinFirst(args, st) ==
    IF Len(args) # 1 THEN Ret(wrongArguments(Len(args), "1"), st)
    ELSE IF args[1] = NIL THEN Ret(NilDereference, st)
    ELSE IF args[1].Type # "ARRAY"
    THEN Ret(newError("argument to 'first' must be an ARRAY, got " \o args[1].Type), st)
    ELSE IF Len(args[1].Elements) > 0 THEN Ret(args[1].Elements[1], st)
    ELSE Ret(NULL, st)

builtinLast(args, st) ==
    IF Len(args) # 1 THEN Ret(wrongArguments(Len(args), "1"), st)
    ELSE IF args[1] = NIL THEN Ret(NilDereference, st)
    ELSE IF args[1].Type # "ARRAY"
    THEN Ret(newError("argument to 'last' must be an ARRAY, got " \o args[1].Type), st)
    ELSE LET length == Len(args[1].Elements)
         IN  IF length > 0 THEN Ret(args[1].Elements[length], st) ELSE Ret(NULL, st)

(* A variant of builtinTail for which an array of one element has no tail *)
tailOfOneIsNull(args, st) ==
    IF Len(args) # 1 THEN Ret(wrongArguments(Len(args), "1"), st)
    ELSE IF args[1] = NIL THEN Ret(NilDereference, st)
    ELSE IF args[1].Type # "ARRAY"
    THEN Ret(newError("argument to 'tail' must be an ARRAY, got " \o args[1].Type), st)
    ELSE LET length == Len(args[1].Elements)
         IN  IF length > 1
             THEN Ret(Array(SubSeq(args[1].Elements, 2, length), st.nextId), Alloc(st))
             ELSE Ret(NULL, st)

builtinTail(args, st) ==
    IF Len(args) # 1 THEN Ret(wrongArguments(Len(args), "1"), st)
    ELSE IF args[1] = NIL THEN Ret(NilDereference, st)
    ELSE IF args[1].Type # "ARRAY"
    THEN Ret(newError("argument to 'tail' must be an ARRAY, got " \o args[1].Type), st)
    ELSE LET length == Len(args[1].Elements)
         IN  IF length > 0
             THEN Ret(Array(SubSeq(args[1].Elements, 2, length), st.nextId), Alloc(st))
             ELSE Ret(NULL, st)

(* A variant of builtinPush that appends to the array it is given: every *)
(* binding of that array sees the new element                             *)
pushInPlace(args, st) ==
    IF Len(args) # 2 THEN Ret(wrongArguments(Len(args), "2"), st)
    ELSE IF args[1] = NIL THEN Ret(NilDereference, st)
    ELSE IF args[1].Type # "ARRAY"
    THEN Ret(newError("argument to 'push' must be an ARRAY, got " \o args[1].Type), st)
    ELSE LET arr == Array(Append(args[1].Elements, args[2]), args[1].id)
             same(obj) == obj.Type = "ARRAY" /\ obj.id = arr.id
         IN  Ret(arr, [st EXCEPT !.heap =
                 [e \in DOMAIN @ |->
                     [@[e] EXCEPT !.store =
                         [n \in DOMAIN @ |-> IF same(@[n]) THEN arr ELSE @[n]]]]])

builtinPush(args, st) ==
    IF Len(args) # 2 THEN Ret(wrongArguments(Len(args), "2"), st)
    ELSE IF args[1] = NIL THEN Ret(NilDereference, st)
    ELSE IF args[1].Type # "ARRAY"
    THEN Ret(newError("argument to 'push' must be an ARRAY, got " \o args[1].Type), st)
    ELSE Ret(Array(Append(args[1].Elements, args[2]), st.nextId), Alloc(st))

(* fn.Fn(args...) for the builtin of that name *)
callBuiltin(name, args, st) ==
    CASE name = "puts" -> builtinPuts(args, st)
      [] name = "len" -> builtinLen(args, st)
      [] name = "first" -> builtinFirst(args, st)
      [] name = "last" -> builtinLast(args, st)
      [] name = "tail" -> builtinTail(args, st)
      [] name = "push" -> builtinPush(args, st)

----------------------------------------------------------------------------
(* lib/evaluator/evaluator.go: Eval *)

MaxDepth == 4   \* user-function calls the Go stack holds before it overflows

RECURSIVE Eval(_, _, _)
RECURSIVE evalBlockStatement(_, _, _, _)
RECURSIVE evalExpressions(_, _, _, _)
RECURSIVE evalHashPairs(_, _, _, _)
RECURSIVE evalIfExpression(_, _, _)
RECURSIVE applyFunction(_, _, _)

(* evalBlockStatement's test after each statement: stop and hand on `res` *)
blockStops(res) ==
    IF res # NIL THEN res.Type = "RETURN_VALUE" \/ res.Type = "ERROR" ELSE FALSE

(* The loop of evalBlockStatement over the statements still to run;        *)
(* `res` is the local `result`.                                            *)
evalBlockStatement(stmts, env, st, res) ==
    IF stmts = <<>> THEN Ret(res, st)
    ELSE LET r == Eval(Head(stmts), env, st)
         IN  IF IsPanic(r.val) THEN r
             ELSE IF blockStops(r.val) THEN r
             ELSE evalBlockStatement(Tail(stmts), env, r.st, r.val)

(* The loop of evalExpressions; `acc` is the local `result`.  Yields        *)
(* [val, vals, st]: vals is the slice returned, val a panic if one arose.   *)
evalExpressions(exps, env, st, acc) ==
    IF exps = <<>> THEN [val |-> NIL, vals |-> acc, st |-> st]
    ELSE LET r == Eval(Head(exps), env, st)
         IN  IF IsPanic(r.val) THEN [val |-> r.val, vals |-> <<>>, st |-> r.st]
             ELSE IF isError(r.val) THEN [val |-> NIL, vals |-> <<r.val>>, st |-> r.st]
             ELSE evalExpressions(Tail(exps), env, r.st, Append(acc, r.val))

(* node.Pairs in the order `range` visits them: the entries of the map in   *)
(* the order st.ord ranks their positions.                                  *)
RangeOrder(pairs, ord) ==
    LET known == SelectSeq(ord, LAMBDA i : i <= Len(pairs))
        rest == SelectSeq([i \in 1..Len(pairs) |-> i], LAMBDA i : \A j \in DOMAIN ord : ord[j] # i)
    IN  [k \in 1..Len(pairs) |-> pairs[(known \o rest)[k]]]

(* The loop of evalHashLiteral over the entries still to visit *)
evalHashPairs(todo, env, st, pairs) ==
    IF todo = <<>> THEN Ret(HashObj(pairs, st.nextId), Alloc(st))
    ELSE LET k == Eval(Head(todo)[1], env, st)
         IN  IF IsPanic(k.val) \/ isError(k.val) THEN k
             ELSE IF k.val = NIL THEN Ret(NilDereference, k.st)
             ELSE IF ~Hashable(k.val)
             THEN Ret(newError("Unusable as hash key: " \o k.val.Type), k.st)
             ELSE LET v == Eval(Head(todo)[2], env, k.st)
                  IN  IF IsPanic(v.val) \/ isError(v.val) THEN v
                      ELSE evalHashPairs(Tail(todo), env, v.st,
                                         PutPair(pairs, HashKey(k.val), HashPair(k.val, v.val)))

evalHashLiteral(node, env, st) ==
    evalHashPairs(RangeOrder(node.PairNodes, st.ord), env, st, EmptyPairs)

(* A variant of evalIdentifier that looks in the builtin table first *)
builtinsFirst(node, env, st) ==
    LET got == Get(st.heap, env, node.Name)
    IN  IF node.Name \in BuiltinNames THEN Ret(Builtin(node.Name), st)
        ELSE IF got.ok THEN Ret(got.obj, st)
        ELSE Ret(newError("Identifier not found: " \o node.Name), st)

evalIdentifier(node, env, st) ==
    LET got == Get(st.heap, env, node.Name)
    IN  IF got.ok THEN Ret(got.obj, st)
        ELSE IF node.Name \in BuiltinNames THEN Ret(Builtin(node.Name), st)
        ELSE Ret(newError("Identifier not found: " \o node.Name), st)

evalIfExpression(ie, env, st) ==
    LET c == Eval(ie.Condition, env, st)
    IN  IF IsPanic(c.val) \/ isError(c.val) THEN c
        ELSE IF isTruthy(c.val) THEN Eval(ie.Consequence, env, c.st)
        ELSE IF ie.Alternative # NilNode THEN Eval(ie.Alternative, env, c.st)
        ELSE Ret(NULL, c.st)

(* A variant of evalFunctionLiteral whose Function keeps a copy of *env *)
captureCopy(node, env, st) ==
    Ret(Function(node.Parameters, node.Body, Len(st.heap) + 1, st.nextId),
        [Alloc(st) EXCEPT !.heap = Append(@, st.heap[env])])

(* case *ast.FunctionLiteral: the Function keeps the pointer env *)
evalFunctionLiteral(node, env, st) ==
    Ret(Function(node.Parameters, node.Body, env, st.nextId), Alloc(st))

(* The loop of extendFunctionEnv: env.Set(param.Value, args[paramIdx]) *)
RECURSIVE bindParameters(_, _, _, _, _)
bindParameters(h, env, params, args, paramIdx) ==
    IF paramIdx > Len(params) THEN h
    ELSE bindParameters(Set(h, env, params[paramIdx], args[paramIdx]), env, params, args, paramIdx + 1)

(* A variant of extendFunctionEnv that binds in fn.Env itself *)
bindInCaptured(fn, args, h) ==
    [heap |-> bindParameters(h, fn.Env, fn.Parameters, args, 1), env |-> fn.Env]

(* Yields [heap, env]: the heap with the call's frame, and that frame *)
extendFunctionEnv(fn, args, h) ==
    LET h1 == NewEnclosedEnvironment(h, fn.Env)
        env == Len(h1)
    IN  [heap |-> bindParameters(h1, env, fn.Parameters, args, 1), env |-> env]

(* A variant of applyFunction that accepts as many arguments as the      *)
(* function has parameters and no others                                  *)
arityEnforced(fn, args, st) ==
    CASE fn = NIL -> Ret(NilDereference, st)
      [] fn.Type = "FUNCTION" ->
            IF Len(args) # Len(fn.Parameters)
            THEN Ret(newError("wrong number of arguments"), st)
            ELSE IF st.depth >= MaxDepth THEN Ret(Panic("stack overflow"), st)
            ELSE LET ext == extendFunctionEnv(fn, args, st.heap)
                     evaluated == Eval(fn.Body, ext.env,
                                       [st EXCEPT !.heap = ext.heap, !.depth = @ + 1])
                 IN  IF IsPanic(evaluated.val) THEN evaluated
                     ELSE Ret(unwrapReturnValue(evaluated.val),
                              [evaluated.st EXCEPT !.depth = st.depth])
      [] fn.Type = "BUILTIN" -> callBuiltin(fn.Name, args, st)
      [] OTHER -> Ret(newError("Not a function, received type: " \o fn.Type), st)

applyFunction(fn, args, st) ==
    CASE fn = NIL -> Ret(NilDereference, st)
      [] fn.Type = "FUNCTION" ->
            IF Len(args) < Len(fn.Parameters) THEN Ret(Panic("index out of range"), st)
            ELSE IF st.depth >= MaxDepth THEN Ret(Panic("stack overflow"), st)
            ELSE LET ext == extendFunctionEnv(fn, args, st.heap)
                     evaluated == Eval(fn.Body, ext.env,
                                       [st EXCEPT !.heap = ext.heap, !.depth = @ + 1])
                 IN  IF IsPanic(evaluated.val) THEN evaluated
                     ELSE Ret(unwrapReturnValue(evaluated.val),
                              [evaluated.st EXCEPT !.depth = st.depth])
      [] fn.Type = "BUILTIN" -> callBuiltin(fn.Name, args, st)
      [] OTHER -> Ret(newError("Not a function, received type: " \o fn.Type), st)

Eval(node, env, st) ==
    CASE node.node = "BlockStatement" -> evalBlockStatement(node.Statements, env, st, NIL)
      [] node.node = "ExpressionStatement" -> Eval(node.Expr, env, st)
      [] node.node = "IntegerLiteral" -> Ret(Integer(node.Value), st)
      [] node.node = "StringLiteral" -> Ret(String(node.StrValue), st)
      [] node.node = "ArrayLiteral" ->
            LET e == evalExpressions(node.Elements, env, st, <<>>)
            IN  IF IsPanic(e.val) THEN Ret(e.val, e.st)
                ELSE IF Len(e.vals) = 1 /\ isError(e.vals[1]) THEN Ret(e.vals[1], e.st)
                ELSE Ret(Array(e.vals, e.st.nextId), Alloc(e.st))
      [] node.node = "IndexExpression" ->
            LET left == Eval(node.Left, env, st)
            IN  IF IsPanic(left.val) \/ isError(left.val) THEN left
                ELSE LET index == Eval(node.Index, env, left.st)
                     IN  IF IsPanic(index.val) \/ isError(index.val) THEN index
                         ELSE Ret(evalIndexExpression(left.val, index.val), index.st)
      [] node.node = "Boolean" -> Ret(nativeBoolToBooleanObject(node.BoolValue), st)
      [] node.node = "HashLiteral" -> evalHashLiteral(node, env, st)
      [] node.node = "PrefixExpression" ->
            LET right == Eval(node.Right, env, st)
            IN  IF IsPanic(right.val) \/ isError(right.val) THEN right
                ELSE Ret(evalPrefixExpression(node.Operator, right.val), right.st)
      [] node.node = "InfixExpression" ->
            LET left == Eval(node.Left, env, st)
            IN  IF IsPanic(left.val) \/ isError(left.val) THEN left
                ELSE LET right == Eval(node.Right, env, left.st)
                     IN  IF IsPanic(right.val) \/ isError(right.val) THEN right
                         ELSE Ret(evalInfixExpression(node.Operator, left.val, right.val), right.st)
      [] node.node = "IfExpression" -> evalIfExpression(node, env, st)
      [] node.node = "ReturnStatement" ->
            LET v == Eval(node.Expr, env, st)
            IN  IF IsPanic(v.val) \/ isError(v.val) THEN v
                ELSE Ret(ReturnValue(v.val, v.st.nextId), Alloc(v.st))
      [] node.node = "LetStatement" ->
            IF node = NilLetStatement THEN Ret(NilDereference, st)
            ELSE LET v == Eval(node.Expr, env, st)
                 IN  IF IsPanic(v.val) \/ isError(v.val) THEN v
                     ELSE Ret(NIL, [v.st EXCEPT !.heap = Set(@, env, node.Name, v.val)])
      [] node.node = "Identifier" -> evalIdentifier(node, env, st)
      [] node.node = "FunctionLiteral" -> evalFunctionLiteral(node, env, st)
      [] node.node = "CallExpression" ->
            LET function == Eval(node.Function, env, st)
            IN  IF IsPanic(function.val) \/ isError(function.val) THEN function
                ELSE LET a == evalExpressions(node.Arguments, env, function.st, <<>>)
                     IN  IF IsPanic(a.val) THEN Ret(a.val, a.st)
                         ELSE IF Len(a.vals) = 1 /\ isError(a.vals[1]) THEN Ret(a.vals[1], a.st)
                         ELSE applyFunction(function.val, a.vals, a.st)
      [] OTHER -> Ret(NIL, st)

----------------------------------------------------------------------------
(* lib/evaluator/evaluator.go: evalProgram, one loop iteration per step,    *)
(* called as evaluator_test.go's testEval calls it: on a new environment.   *)

(* The orders in which `range` may visit a map of up to two entries *)
HashOrders == {<<1, 2>>, <<2, 1>>}

EvalState(ord) == [heap |-> heap, nextId |-> nextId, out |-> out, depth |-> 0, ord |-> ord]

(* evalProgram's type switch: the cases that return at once *)
programStops(res) == res.Type = "RETURN_VALUE" \/ res.Type = "ERROR"

(* A variant of programValue that hands on the wrapper *)
KeepWrapper(res) == res

(* ... and what each returns: result.Value for a ReturnValue, the Error itself *)
programValue(res) == IF res.Type = "RETURN_VALUE" THEN res.Inner ELSE res

(* One iteration: result = Eval(statement, env), then the switch *)
EvalStatement(ord) ==
    /\ pc = "loop"
    /\ idx < Len(program)
    /\ LET r == Eval(program[idx + 1], 1, EvalState(ord))
       IN  /\ idx' = idx + 1
           /\ heap' = r.st.heap
           /\ nextId' = r.st.nextId
           /\ out' = r.st.out
           /\ IF IsPanic(r.val)
              THEN pc' = "panic" /\ UNCHANGED <<result, returned>>
              ELSE /\ result' = r.val
                   /\ IF programStops(r.val)
                      THEN pc' = "done" /\ returned' = programValue(r.val)
                      ELSE pc' = "loop" /\ UNCHANGED returned
    /\ UNCHANGED <<program, parseVars>>

(* The loop is over: return result *)
ReturnResult ==
    /\ pc = "loop"
    /\ idx = Len(program)
    /\ pc' = "done"
    /\ returned' = result
    /\ UNCHANGED <<program, idx, result, heap, nextId, out, parseVars>>

----------------------------------------------------------------------------
(* The programs evaluated: every sequence of up to MaxStmts statements of a *)
(* small pool, and the programs of lib/evaluator/evaluator_test.go and of   *)
(* the cases under study.                                                   *)

MaxStmts == 3   \* statements in a program built from the pool
MaxNest == 3    \* depth of directly nested if-blocks

IfTrue(stmts) == IfExpression(Boolean(TRUE), BlockStatement(stmts), NilNode)

Call(name, args) == CallExpression(Identifier(name), args)

(* let a = 1; *)
LetA == LetStatement("a", IntegerLiteral(1))

(* return 7; *)
Return7 == ReturnStatement(IntegerLiteral(7))

(* foobar *)
Foobar == ExpressionStatement(Identifier("foobar"))

(* let f = fn(a) { let a = a + 1; if (true) { return a }; 9 }; *)
LetF ==
    LetStatement("f", FunctionLiteral(<<"a">>, BlockStatement(<<
        LetStatement("a", InfixExpression(Identifier("a"), "+", IntegerLiteral(1))),
        ExpressionStatement(IfTrue(<<ReturnStatement(Identifier("a"))>>)),
        ExpressionStatement(IntegerLiteral(9))>>)))

(* f(5) *)
CallF == ExpressionStatement(Call("f", <<IntegerLiteral(5)>>))

(* let g = fn() { a }; *)
LetG == LetStatement("g", FunctionLiteral(<<>>, BlockStatement(<<ExpressionStatement(Identifier("a"))>>)))

(* g() *)
CallG == ExpressionStatement(Call("g", <<>>))

(* 2 *)
Two == ExpressionStatement(IntegerLiteral(2))

StatementPool == {LetA, Return7, Foobar, LetF, CallF, LetG, CallG, Two}

PoolPrograms == UNION {[1..n -> StatementPool] : n \in 0..MaxStmts}

(* TestReturnStatements: if (10 > 1) { ... if (10 > 1) { return 10; } tail }, *)
(* `depth` blocks deep, every enclosing block ending with `tail`.            *)
RECURSIVE NestedReturn(_, _)
NestedReturn(depth, tail) ==
    ExpressionStatement(IfExpression(
        InfixExpression(IntegerLiteral(10), ">", IntegerLiteral(1)),
        BlockStatement(<<IF depth = 1 THEN ReturnStatement(IntegerLiteral(10))
                                      ELSE NestedReturn(depth - 1, tail)>> \o tail),
        NilNode))

(* What may follow the inner statement of a block: return 1;  let z = 1;  nothing *)
BlockTails == {<<ReturnStatement(IntegerLiteral(1))>>, <<LetStatement("z", IntegerLiteral(1))>>, <<>>}

NestedPrograms ==
    {<<NestedReturn(d, tail)>> \o rest :
        d \in 1..MaxNest, tail \in BlockTails, rest \in {<<>>, <<LetStatement("z", IntegerLiteral(1))>>}}

(* if (true) { return 3 } *)
IfReturn3 == IfTrue(<<ReturnStatement(IntegerLiteral(3))>>)

(* let identity = fn(x) { return x; }; identity(16); 2 *)
IdentityProgram ==
    <<LetStatement("identity", FunctionLiteral(<<"x">>, BlockStatement(<<ReturnStatement(Identifier("x"))>>))),
      ExpressionStatement(Call("identity", <<IntegerLiteral(16)>>)),
      Two>>

(* TestClosures:                                                             *)
(* let newAdder = fn(x) { fn(y) { x + y } }; let addTwo = newAdder(2); addTwo(2); *)
ClosureProgram ==
    <<LetStatement("newAdder", FunctionLiteral(<<"x">>, BlockStatement(<<
          ExpressionStatement(FunctionLiteral(<<"y">>, BlockStatement(<<
              ExpressionStatement(InfixExpression(Identifier("x"), "+", Identifier("y")))>>)))>>))),
      LetStatement("addTwo", Call("newAdder", <<IntegerLiteral(2)>>)),
      ExpressionStatement(Call("addTwo", <<IntegerLiteral(2)>>))>>

(* let a = 1; let g = fn() { a }; let a = 2; g() *)
RebindProgram == <<LetA, LetG, LetStatement("a", IntegerLiteral(2)), CallG>>

(* let a = 1; let f = fn(a) { ... }; f(5); f(5) *)
CallTwiceProgram == <<LetA, LetF, CallF, CallF>>

(* let g = fn() { a }; let a = 1; g() *)
LateLetProgram == <<LetG, LetA, CallG>>

(* if (10 > 1) { let x = if (10 > 1) { return 10; }; return 1; } *)
LetNestedProgram ==
    <<ExpressionStatement(IfExpression(
        InfixExpression(IntegerLiteral(10), ">", IntegerLiteral(1)),
        BlockStatement(<<LetStatement("x", NestedReturn(1, <<>>).Expr),
                         ReturnStatement(IntegerLiteral(1))>>),
        NilNode))>>

(* if (10 > 1) { return if (10 > 1) { return 10; }; } *)
ReturnNestedProgram ==
    <<ExpressionStatement(IfExpression(
        InfixExpression(IntegerLiteral(10), ">", IntegerLiteral(1)),
        BlockStatement(<<ReturnStatement(NestedReturn(1, <<>>).Expr)>>),
        NilNode))>>

(* [if (true) { return 3 }]; 2 *)
ArrayReturnProgram == <<ExpressionStatement(ArrayLiteral(<<IfReturn3>>)), Two>>

(* {1: if (true) { return 3 }, true: 2}; 2 *)
HashReturnProgram ==
    <<ExpressionStatement(HashLiteral(<<<<IntegerLiteral(1), IfReturn3>>, <<Boolean(TRUE), IntegerLiteral(2)>>>>)), Two>>

(* return if (true) { return 3 }; *)
ReturnReturnProgram == <<ReturnStatement(IfReturn3), Two>>

(* let x = if (true) { return 3 }; x *)
LetReturnProgram == <<LetStatement("x", IfReturn3), ExpressionStatement(Identifier("x"))>>

(* let h = fn() { return if (true) { return 3 } }; h(); 2 *)
CallReturnProgram ==
    <<LetStatement("h", FunctionLiteral(<<>>, BlockStatement(<<ReturnStatement(IfReturn3)>>))),
      ExpressionStatement(Call("h", <<>>)),
      Two>>

ScenarioPrograms ==
    NestedPrograms \cup
    {IdentityProgram, ClosureProgram, RebindProgram, CallTwiceProgram, LateLetProgram,
     LetNestedProgram, ReturnNestedProgram, ArrayReturnProgram, HashReturnProgram,
     ReturnReturnProgram, LetReturnProgram, CallReturnProgram}

(* TestErrorHandling: an expression that evaluates to an Error, placed in   *)
(* every position of an enclosing node that Eval evaluates, two levels deep, *)
(* and followed in source order by an expression with a visible effect.     *)

(* if (true) { let z = 1; 3 } *)
Side == IfTrue(<<LetStatement("z", IntegerLiteral(1)), ExpressionStatement(IntegerLiteral(3))>>)

(* foobar;  -true;  len(1) *)
ErrorSources ==
    {Identifier("foobar"), PrefixExpression("-", Boolean(TRUE)), Call("len", <<IntegerLiteral(1)>>)}

Contexts ==
    {"same", "bang", "minus", "left", "right", "element", "only", "indexed", "index",
     "condition", "consequence", "alternative", "callee", "argument", "first", "passed",
     "body", "key", "value", "let", "return"}

Wrap(c, e) ==
    CASE c = "same" -> e
      [] c = "bang" -> PrefixExpression("!", e)
      [] c = "minus" -> PrefixExpression("-", e)
      [] c = "left" -> InfixExpression(e, "+", Side)
      [] c = "right" -> InfixExpression(IntegerLiteral(1), "+", e)
      [] c = "element" -> ArrayLiteral(<<IntegerLiteral(1), e, Side>>)
      [] c = "only" -> ArrayLiteral(<<e>>)
      [] c = "indexed" -> IndexExpression(e, Side)
      [] c = "index" -> IndexExpression(ArrayLiteral(<<IntegerLiteral(1)>>), e)
      [] c = "condition" ->
            IfExpression(e, BlockStatement(<<ExpressionStatement(Side)>>),
                         BlockStatement(<<ExpressionStatement(Side)>>))
      [] c = "consequence" -> IfTrue(<<ExpressionStatement(e), ExpressionStatement(Side)>>)
      [] c = "alternative" ->
            IfExpression(Boolean(FALSE), BlockStatement(<<>>),
                         BlockStatement(<<ExpressionStatement(e), ExpressionStatement(Side)>>))
      [] c = "callee" -> CallExpression(e, <<Side>>)
      [] c = "argument" -> Call("len", <<e>>)
      [] c = "first" -> Call("push", <<e, Side>>)
      [] c = "passed" ->
            CallExpression(FunctionLiteral(<<"x">>, BlockStatement(<<ExpressionStatement(Side)>>)), <<e>>)
      [] c = "body" ->
            CallExpression(FunctionLiteral(<<>>, BlockStatement(<<ExpressionStatement(e),
                                                                  ExpressionStatement(Side)>>)), <<>>)
      [] c = "key" -> HashLiteral(<<<<e, Side>>>>)
      [] c = "value" -> HashLiteral(<<<<IntegerLiteral(1), e>>>>)
      [] c = "let" -> IfTrue(<<LetStatement("y", e), ExpressionStatement(Side)>>)
      [] c = "return" -> IfTrue(<<ReturnStatement(e), ExpressionStatement(Side)>>)

(* let w = 2; *)
LetW == LetStatement("w", IntegerLiteral(2))

ErrorPrograms ==
    {<<stmt, LetW>> :
        stmt \in UNION {{ExpressionStatement(Wrap(c1, Wrap(c2, e))),
                         LetStatement("y", Wrap(c1, Wrap(c2, e))),
                         ReturnStatement(Wrap(c1, Wrap(c2, e)))} :
                            c1 \in Contexts, c2 \in Contexts, e \in ErrorSources}}

Programs == PoolPrograms \cup ScenarioPrograms \cup ErrorPrograms

Init ==
    /\ program \in Programs
    /\ idx = 0
    /\ result = NIL
    /\ returned = Pending
    /\ pc = "loop"
    /\ heap = <<NewEnvironment>>
    /\ nextId = 1
    /\ out = <<>>
    /\ tokens = <<>>
    /\ pos = 0
    /\ errors = <<>>
    /\ lexer = NewLexer(<<>>)

Next == (\E ord \in HashOrders : EvalStatement(ord)) \/ ReturnResult

Spec == Init /\ [][Next]_vars

----------------------------------------------------------------------------
(* Syntax of a program, for stating what a prefix of it can have done *)

Children(n) ==
    CASE n.node = "PrefixExpression" -> {n.Right}
      [] n.node = "InfixExpression" -> {n.Left, n.Right}
      [] n.node = "BlockStatement" -> {n.Statements[i] : i \in DOMAIN n.Statements}
      [] n.node = "IfExpression" -> {n.Condition, n.Consequence, n.Alternative}
      [] n.node = "FunctionLiteral" -> {n.Body}
      [] n.node = "CallExpression" -> {n.Function} \cup {n.Arguments[i] : i \in DOMAIN n.Arguments}
      [] n.node = "ArrayLiteral" -> {n.Elements[i] : i \in DOMAIN n.Elements}
      [] n.node = "IndexExpression" -> {n.Left, n.Index}
      [] n.node = "HashLiteral" -> UNION {{n.PairNodes[i][1], n.PairNodes[i][2]} : i \in DOMAIN n.PairNodes}
      [] n.node \in {"LetStatement", "ReturnStatement", "ExpressionStatement"} -> {n.Expr}
      [] OTHER -> {}

RECURSIVE SubNodes(_)
SubNodes(n) == {n} \cup UNION {SubNodes(c) : c \in Children(n)}

(* The names some `let` of the first k statements of the program binds *)
LetNames(k) ==
    {n.Name : n \in {m \in UNION {SubNodes(program[i]) : i \in 1..k} : m.node = "LetStatement"}}

(* The names bound in the environment evalProgram was called with *)
BoundNames == DOMAIN heap[1].store

(* The names bound in any environment *)
AllBoundNames == UNION {DOMAIN heap[e].store : e \in DOMAIN heap}

----------------------------------------------------------------------------
(* C1.  When a statement of the program yields a ReturnValue, evalProgram   *)
(* returns at once: the loop never goes on past a ReturnValue, what is      *)
(* returned is the payload and not the wrapper, and the environment binds   *)
(* only names that a `let` up to that statement binds.  When no statement   *)
(* yields a ReturnValue or an Error, every statement is evaluated and what  *)
(* is returned is the value of the last one.                                *)
C1_ReturnEndsProgram ==
    /\ pc = "loop" => result.Type # "RETURN_VALUE"
    /\ pc = "done" /\ result.Type = "RETURN_VALUE" =>
          /\ returned = result.Inner
          /\ returned # result
          /\ BoundNames \subseteq LetNames(idx)
    /\ pc = "done" /\ result.Type \notin {"RETURN_VALUE", "ERROR"} =>
          /\ idx = Len(program)
          /\ returned = result

(* A `return` before the last statement, followed by a `let` of a name that *)
(* stays unbound.                                                           *)
C1_Witness ==
    /\ pc = "done"
    /\ result.Type = "RETURN_VALUE"
    /\ \E j \in (idx + 1)..Len(program) :
          program[j].node = "LetStatement" /\ program[j].Name \notin BoundNames

----------------------------------------------------------------------------
(* C2.  An Error ends the program: the loop never goes on past an Error,    *)
(* the Error itself is returned, and the environment binds only names that  *)
(* a `let` up to that statement binds.  An Error that arises two levels     *)
(* deep inside any enclosing node comes out of the program unchanged, and   *)
(* nothing that follows it in source order has been evaluated.              *)

(* The Error the expression yields when evaluated on its own *)
ErrorOf(e) ==
    Eval(e, 1, [heap |-> <<NewEnvironment>>, nextId |-> 1, out |-> <<>>, depth |-> 0, ord |-> <<>>]).val

IsErrorProgram == Len(program) = 2 /\ program[2] = LetW

----------------------------------------------------------------------------
(* C3.  A step that evaluates a call `name(literals...)` of a user function *)
(* allocates one frame per call made, the first of them enclosed by the     *)
(* environment the function captured and binding every parameter, and      *)
(* leaves every frame that existed before the call as it was: the captured *)
(* environment and the caller's keep their bindings, also of the names the *)
(* parameters and the body's `let` bind.                                   *)

(* An expression statement that calls the function a name is bound to, and *)
(* whose arguments are integer literals.                                   *)
IsPlainCall(stmt) ==
    /\ stmt.node = "ExpressionStatement"
    /\ stmt.Expr.node = "CallExpression"
    /\ stmt.Expr.Function.node = "Identifier"
    /\ \A i \in DOMAIN stmt.Expr.Arguments : stmt.Expr.Arguments[i].node = "IntegerLiteral"

(* The value the callee's name is bound to, NIL when it is unbound *)
Callee(stmt) == Get(heap, 1, stmt.Expr.Function.Name).obj

CallsFunction(stmt) ==
    /\ IsPlainCall(stmt)
    /\ Callee(stmt).Type = "FUNCTION"
    /\ Len(stmt.Expr.Arguments) >= Len(Callee(stmt).Parameters)

C3_CallLeavesEnvironments ==
    [][pc = "loop" /\ idx < Len(program) /\ CallsFunction(program[idx + 1]) =>
          LET fn == Callee(program[idx + 1])
              frame == Len(heap) + 1
          IN  /\ \A e \in DOMAIN heap : heap'[e] = heap[e]
              /\ Len(heap') >= frame
              /\ heap'[frame].outer = fn.Env
              /\ \A i \in DOMAIN fn.Parameters : fn.Parameters[i] \in DOMAIN heap'[frame].store]_vars

(* f(5) was called twice where the environment binds a to 1: each call      *)
(* bound a to 5 and then to 6 in a frame of its own.                        *)
C3_Witness ==
    /\ program = CallTwiceProgram
    /\ pc = "done"
    /\ returned = Integer(6)
    /\ Len(heap) = 3
    /\ heap[1].store["a"] = Integer(1)
    /\ heap[2].store["a"] = Integer(6)
    /\ heap[3].store["a"] = Integer(6)
    /\ heap[2].outer = 1
    /\ heap[3].outer = 1

----------------------------------------------------------------------------
(* C4.  A Function refers to the environment its literal was evaluated in:  *)
(* its Env is a frame of the heap; a call of g = fn() { a } yields what a   *)
(* is bound to when g is called, whether a was bound before or after g was  *)
(* made; and the frame of a call that has returned still serves the         *)
(* closure made in it (newAdder(2), then addTwo(2), gives 4).               *)

RECURSIVE FunctionsIn(_)
FunctionsIn(v) ==
    CASE v.Type = "FUNCTION" -> {v}
      [] v.Type = "RETURN_VALUE" -> FunctionsIn(v.Inner)
      [] v.Type = "ARRAY" -> UNION {FunctionsIn(v.Elements[i]) : i \in DOMAIN v.Elements}
      [] OTHER -> {}

StoredValues == UNION {{heap[e].store[n] : n \in DOMAIN heap[e].store} : e \in DOMAIN heap}

C4_FunctionRefersToEnvironment ==
    /\ \A v \in StoredValues \cup {result} : \A fn \in FunctionsIn(v) : fn.Env \in DOMAIN heap
    /\ idx > 0 /\ program[idx] = CallG /\ {"a", "g"} \subseteq BoundNames =>
          result = heap[1].store["a"]
    /\ program = RebindProgram /\ pc = "done" => returned = Integer(2)
    /\ program = LateLetProgram /\ pc = "done" => returned = Integer(1)
    /\ program = ClosureProgram /\ pc = "done" =>
          /\ returned = Integer(4)
          /\ heap[1].store["addTwo"].Env = 2
          /\ heap[2].store["x"] = Integer(2)
          /\ heap[3].outer = 2

(* g was made before a was bound, and the call saw the binding *)
C4_Witness ==
    /\ program = LateLetProgram
    /\ pc = "done"
    /\ returned = Integer(1)

----------------------------------------------------------------------------
(* lib/object/environment.go used on its own: environments are made, bound  *)
(* in and looked up in, in any order.  `result` holds the pair (obj, ok)    *)
(* that the last Get returned.                                              *)

MaxFrames == 2   \* environments allocated

EnvNames == {"a", "b"}

EnvValues == {Integer(1), Integer(2)}

InitEnv ==
    /\ program = <<>>
    /\ pc = "env"
    /\ idx = 0
    /\ result = [obj |-> NIL, ok |-> FALSE]
    /\ returned = Pending
    /\ heap = <<NewEnvironment>>
    /\ nextId = 1
    /\ out = <<>>
    /\ tokens = <<>>
    /\ pos = 0
    /\ errors = <<>>
    /\ lexer = NewLexer(<<>>)

(* NewEnvironment() when outer = 0, NewEnclosedEnvironment(outer) otherwise *)
EnvNew(outer) ==
    /\ pc = "env"
    /\ Len(heap) < MaxFrames
    /\ heap' = NewEnclosedEnvironment(heap, outer)
    /\ UNCHANGED <<program, pc, idx, result, returned, nextId, out, parseVars>>

EnvSet(e, name, val) ==
    /\ pc = "env"
    /\ heap' = Set(heap, e, name, val)
    /\ UNCHANGED <<program, pc, idx, result, returned, nextId, out, parseVars>>

EnvGet(e, name) ==
    /\ pc = "env"
    /\ result' = Get(heap, e, name)
    /\ UNCHANGED <<program, pc, idx, returned, heap, nextId, out, parseVars>>

NextEnv ==
    \/ \E outer \in {0} \cup DOMAIN heap : EnvNew(outer)
    \/ \E e \in DOMAIN heap, name \in EnvNames, val \in EnvValues : EnvSet(e, name, val)
    \/ \E e \in DOMAIN heap, name \in EnvNames : EnvGet(e, name)

SpecEnv == InitEnv /\ [][NextEnv]_vars

----------------------------------------------------------------------------
(* C5.  Get on a frame returns the binding of the first frame, going        *)
(* outward from it, that binds the name, and (nil, false) when no frame of  *)
(* the chain binds it.  Set binds the name in the frame it is called on     *)
(* and changes nothing else: no other frame, no other name of the frame,    *)
(* and so nothing that Get returns on an outer frame.                       *)

(* The frames from e outward *)
RECURSIVE FrameChain(_, _)
FrameChain(h, e) == IF e = 0 THEN <<>> ELSE <<e>> \o FrameChain(h, h[e].outer)

Innermost(h, e, name) ==
    LET chain == FrameChain(h, e)
        binders == {i \in DOMAIN chain : name \in DOMAIN h[chain[i]].store}
    IN  IF binders = {} THEN [obj |-> NIL, ok |-> FALSE]
        ELSE LET i == CHOOSE b \in binders : \A c \in binders : b <= c
             IN  [obj |-> h[chain[i]].store[name], ok |-> TRUE]

C5_EnvironmentChain ==
    [][/\ \A e \in DOMAIN heap, name \in EnvNames :
              EnvGet(e, name) => result' = Innermost(heap, e, name)
       /\ \A e \in DOMAIN heap, name \in EnvNames, val \in EnvValues :
              EnvSet(e, name, val) =>
                  /\ Get(heap', e, name) = [obj |-> val, ok |-> TRUE]
                  /\ \A f \in DOMAIN heap \ {e} : heap'[f] = heap[f]
                  /\ heap'[e].outer = heap[e].outer
                  /\ DOMAIN heap'[e].store = DOMAIN heap[e].store \cup {name}
                  /\ \A other \in DOMAIN heap[e].store \ {name} :
                        heap'[e].store[other] = heap[e].store[other]
                  /\ \A i \in DOMAIN FrameChain(heap, heap[e].outer), other \in EnvNames :
                        Get(heap', FrameChain(heap, heap[e].outer)[i], other)
                            = Get(heap, FrameChain(heap, heap[e].outer)[i], other)]_vars

(* An enclosed frame binds a to 2 and not b, its outer frame binds a to 1   *)
(* and b to 1, and Get returned (2, true).                                  *)
C5_Witness ==
    /\ pc = "env"
    /\ Len(heap) = 2
    /\ heap[2].outer = 1
    /\ DOMAIN heap[1].store = {"a", "b"}
    /\ DOMAIN heap[2].store = {"a"}
    /\ heap[1].store["b"] = Integer(1)
    /\ heap[1].store["a"] = Integer(1)
    /\ heap[2].store["a"] = Integer(2)
    /\ result = [obj |-> Integer(2), ok |-> TRUE]

----------------------------------------------------------------------------
(* C6.  No value of the state (the value of the last statement, the value   *)
(* returned, a binding of an environment, an object written by puts) holds  *)
(* a ReturnValue or an Error inside a ReturnValue, an Array or a Hash.      *)

IsWrapper(v) == v.Type \in {"RETURN_VALUE", "ERROR"}

RECURSIVE HoldsNoWrapper(_)
HoldsNoWrapper(v) ==
    CASE v.Type = "RETURN_VALUE" -> ~IsWrapper(v.Inner) /\ HoldsNoWrapper(v.Inner)
      [] v.Type = "ARRAY" ->
            \A i \in DOMAIN v.Elements : ~IsWrapper(v.Elements[i]) /\ HoldsNoWrapper(v.Elements[i])
      [] v.Type = "HASH" ->
            \A k \in DOMAIN v.Pairs :
                /\ ~IsWrapper(v.Pairs[k].Key) /\ HoldsNoWrapper(v.Pairs[k].Key)
                /\ ~IsWrapper(v.Pairs[k].PairValue) /\ HoldsNoWrapper(v.Pairs[k].PairValue)
      [] OTHER -> TRUE

C6_NoWrapperInsideValue ==
    \A v \in StoredValues \cup {result, returned} \cup {out[i] : i \in DOMAIN out} : HoldsNoWrapper(v)

----------------------------------------------------------------------------
(* C7.  A program whose one statement is an if-expression that executes     *)
(* `return 10` inside nested if-blocks returns 10, whatever follows the     *)
(* inner statement in the enclosing blocks, and no enclosing block goes on. *)

ReturnInBlocksPrograms == NestedPrograms \cup {LetNestedProgram, ReturnNestedProgram}

C7_ReturnEndsEveryBlock ==
    program \in ReturnInBlocksPrograms /\ idx > 0 =>
        /\ pc = "done"
        /\ idx = 1
        /\ returned = Integer(10)
        /\ "z" \notin BoundNames

----------------------------------------------------------------------------
(* C8.  After a statement that calls a user function, the value of the      *)
(* call is not a ReturnValue and the program goes on with the statement     *)
(* that follows the call.                                                   *)

C8_ReturnEndsOnlyCall ==
    idx > 0 /\ pc # "panic" /\ CallsFunction(program[idx]) =>
        /\ result.Type # "RETURN_VALUE"
        /\ result.Type # "ERROR" /\ idx < Len(program) => pc = "loop"

----------------------------------------------------------------------------
(* lib/token/token.go: a token is a kind and the text it was read from,   *)
(* the text kept as its sequence of characters.                            *)

----------------------------------------------------------------------------
(* lib/parser/parser.go.  The parser p is its token window (pos is the     *)
(* place of curToken in the token stream, peekToken is the one after it)   *)
(* and its errors; every parse function returns the node it built and the  *)
(* parser it leaves behind.                                                *)

LOWEST == 1
EQUALS == 2
LESSGREATER == 3
SUM == 4
PRODUCT == 5
PREFIX == 6
CALL == 7
INDEX == 8

FlatPrecedences ==
    [t \in {"==", "!=", "<", ">", "+", "-", "/", "*", "(", "["} |->
        CASE t = "(" -> CALL [] t = "[" -> INDEX [] OTHER -> SUM]

precedences ==
    [t \in {"==", "!=", "<", ">", "+", "-", "/", "*", "(", "["} |->
        CASE t \in {"==", "!="} -> EQUALS
          [] t \in {"<", ">"} -> LESSGREATER
          [] t \in {"+", "-"} -> SUM
          [] t \in {"/", "*"} -> PRODUCT
          [] t = "(" -> CALL
          [] t = "[" -> INDEX]

(* what l.NextToken() returned as the i-th token *)
TokenAt(i) == IF i <= Len(tokens) THEN tokens[i] ELSE EOFToken

curToken(p) == TokenAt(p.pos)
peekToken(p) == TokenAt(p.pos + 1)

peekPrecedence(p) ==
    IF peekToken(p).Type \in DOMAIN precedences THEN precedences[peekToken(p).Type]
    ELSE LOWEST

curPrecedence(p) ==
    IF curToken(p).Type \in DOMAIN precedences THEN precedences[curToken(p).Type]
    ELSE LOWEST

(* New: the two nextToken calls leave the first token in curToken *)
New == [pos |-> 1, errors |-> <<>>]

peekError(p, t) ==
    [p EXCEPT !.errors = Append(@, "Expected next token to be " \o t \o ", got "
                                       \o peekToken(p).Type \o " instead")]

nextToken(p) == [p EXCEPT !.pos = @ + 1]

curTokenIs(p, t) == curToken(p).Type = t
peekTokenIs(p, t) == peekToken(p).Type = t

expectPeekAdvancing(p, t) ==
    IF peekTokenIs(p, t) THEN [ok |-> TRUE, p |-> nextToken(p)]
    ELSE [ok |-> FALSE, p |-> nextToken(peekError(p, t))]

expectPeek(p, t) ==
    IF peekTokenIs(p, t) THEN [ok |-> TRUE, p |-> nextToken(p)]
    ELSE [ok |-> FALSE, p |-> peekError(p, t)]

noPrefixParseFnError(p, t) ==
    [p EXCEPT !.errors = Append(@, "Invalid prefix operator, type: " \o t)]

(* a node and the parser after it *)
Parsed(n, p) == [node |-> n, p |-> p]

(* strconv.ParseInt(s, 0, 64) on a run of decimal digits, which is what an *)
(* INT token holds: a leading 0 selects base 8 and is dropped, a digit not *)
(* below the base is a syntax error, a value above 1<<63 - 1 a range       *)
(* error.  The value is computed for literals below 2^31.                  *)
DigitValue(c) == CHOOSE d \in 0..9 : Itoa(d) = c

ParseInt(s) ==
    LET RECURSIVE StripZeros(_)
        StripZeros(digits) ==
            IF digits # <<>> /\ Head(digits) = "0" THEN StripZeros(Tail(digits)) ELSE digits
        (* a < b for two digit runs of one length *)
        RECURSIVE DigitsBelow(_, _)
        DigitsBelow(a, b) ==
            IF a = <<>> THEN FALSE
            ELSE IF Head(a) # Head(b) THEN DigitValue(Head(a)) < DigitValue(Head(b))
            ELSE DigitsBelow(Tail(a), Tail(b))
        MaxInt64Digits ==
            <<"9", "2", "2", "3", "3", "7", "2", "0", "3", "6",
              "8", "5", "4", "7", "7", "5", "8", "0", "7">>
        RECURSIVE Horner(_, _, _)
        Horner(digits, base, n) ==
            IF digits = <<>> THEN n
            ELSE Horner(Tail(digits), base, n * base + DigitValue(Head(digits)))
    IN  IF s = <<>> \/ \E i \in 1..Len(s) : \A d \in 0..9 : Itoa(d) # s[i]
        THEN [ok |-> FALSE, Value |-> 0]
        ELSE LET base == IF Head(s) = "0" THEN 8 ELSE 10
                 digits == IF Head(s) = "0" THEN Tail(s) ELSE s
                 sig == StripZeros(digits)
                 inRange == IF base = 8 THEN Len(sig) <= 21
                            ELSE \/ Len(sig) < 19
                                 \/ Len(sig) = 19 /\ ~DigitsBelow(MaxInt64Digits, sig)
             IN  IF \E i \in 1..Len(digits) : DigitValue(digits[i]) >= base
                 THEN [ok |-> FALSE, Value |-> 0]
                 ELSE IF ~inRange THEN [ok |-> FALSE, Value |-> 0]
                 ELSE [ok |-> TRUE, Value |-> Horner(sig, base, 0)]

(* []byte(s) for the characters a string literal of the model is made of: *)
(* space, the decimal digits and the lower-case letters                    *)
Lower ==
    <<"a", "b", "c", "d", "e", "f", "g", "h", "i", "j", "k", "l", "m",
      "n", "o", "p", "q", "r", "s", "t", "u", "v", "w", "x", "y", "z">>

Bytes(literal) ==
    [i \in 1..Len(literal) |->
        IF literal[i] = " " THEN 32
        ELSE IF \E d \in 0..9 : Itoa(d) = literal[i] THEN 48 + DigitValue(literal[i])
        ELSE 96 + CHOOSE k \in 1..Len(Lower) : Lower[k] = literal[i]]

parseIdentifier(p) == Parsed(Identifier(JoinChars(curToken(p).Literal)), p)

parseIntegerLiteral(p) ==
    LET value == ParseInt(curToken(p).Literal)
    IN  IF ~value.ok
        THEN Parsed(NilNode,
                    [p EXCEPT !.errors = Append(@, "Could not parse \""
                                  \o JoinChars(curToken(p).Literal) \o "\" as integer")])
        ELSE Parsed([IntegerLiteral(value.Value) EXCEPT
                        !.Literal = JoinChars(curToken(p).Literal)], p)

parseStringLiteral(p) == Parsed(StringLiteral(Bytes(curToken(p).Literal)), p)

(* strconv.ParseBool of the literal of a TRUE or FALSE token *)
parseBoolean(p) ==
    LET lit == JoinChars(curToken(p).Literal)
    IN  IF lit \in {"1", "t", "T", "TRUE", "true", "True"} THEN Parsed(Boolean(TRUE), p)
        ELSE IF lit \in {"0", "f", "F", "FALSE", "false", "False"} THEN Parsed(Boolean(FALSE), p)
        ELSE Parsed(NilNode,
                    [p EXCEPT !.errors = Append(@, "Could not parse \"" \o lit
                                                       \o "\" as Boolean")])

RECURSIVE parseStatement(_)
RECURSIVE parseExpression(_, _)
RECURSIVE parseBlockStatement(_)
RECURSIVE parseExpressionList(_, _)

(* the rest of the loop of parseExpressionList, whose list so far is list *)
RECURSIVE parseExpressionListLoop(_, _, _)
parseExpressionListLoop(end, list, p) ==
    LET next(e) == parseExpressionListLoop(end, Append(list, e.node), e.p)
        close(closed) == IF ~closed.ok THEN [list |-> <<>>, p |-> closed.p]
                         ELSE [list |-> list, p |-> closed.p]
    IN  IF peekTokenIs(p, ",") THEN next(parseExpression(LOWEST, nextToken(nextToken(p))))
        ELSE close(expectPeek(p, end))

parseExpressionList(end, p) ==
    LET first(e) == parseExpressionListLoop(end, <<e.node>>, e.p)
    IN  IF peekTokenIs(p, end) THEN [list |-> <<>>, p |-> nextToken(p)]
        ELSE first(parseExpression(LOWEST, nextToken(p)))

parseArrayLiteral(p) ==
    LET array(elements) == Parsed(ArrayLiteral(elements.list), elements.p)
    IN  array(parseExpressionList("]", p))

parseIndexExpression(left, p) ==
    LET close(index, closed) == IF ~closed.ok THEN Parsed(NilNode, closed.p)
                                ELSE Parsed(IndexExpression(left, index.node), closed.p)
        exp(index) == close(index, expectPeek(index.p, "]"))
    IN  exp(parseExpression(LOWEST, nextToken(p)))

(* hash.Pairs[key] = value: the keys are node pointers, so only a nil key *)
(* can be there already                                                   *)
PutPairNode(pairs, key, value) ==
    IF key = NilNode /\ \E i \in 1..Len(pairs) : pairs[i][1] = NilNode
    THEN [i \in 1..Len(pairs) |-> IF pairs[i][1] = NilNode THEN <<key, value>> ELSE pairs[i]]
    ELSE Append(pairs, <<key, value>>)

(* the loop of parseHashLiteral and what follows it *)
RECURSIVE parseHashLiteralLoop(_, _)
parseHashLiteralLoop(pairs, p) ==
    LET close(closed) == IF ~closed.ok THEN Parsed(NilNode, closed.p)
                         ELSE Parsed(HashLiteral(pairs), closed.p)
        more(put, comma) == IF ~comma.ok THEN Parsed(NilNode, comma.p)
                            ELSE parseHashLiteralLoop(put, comma.p)
        pair(key, value) ==
            IF ~peekTokenIs(value.p, "}")
            THEN more(PutPairNode(pairs, key.node, value.node), expectPeek(value.p, ","))
            ELSE parseHashLiteralLoop(PutPairNode(pairs, key.node, value.node), value.p)
        keyed(key, colon) == IF ~colon.ok THEN Parsed(NilNode, colon.p)
                             ELSE pair(key, parseExpression(LOWEST, nextToken(colon.p)))
        entry(key) == keyed(key, expectPeek(key.p, ":"))
    IN  IF ~peekTokenIs(p, "}") THEN entry(parseExpression(LOWEST, nextToken(p)))
        ELSE close(expectPeek(p, "}"))

parseHashLiteral(p) == parseHashLiteralLoop(<<>>, p)

parsePrefixExpression(p) ==
    LET expression(right) ==
            Parsed(PrefixExpression(JoinChars(curToken(p).Literal), right.node), right.p)
    IN  expression(parseExpression(PREFIX, nextToken(p)))

parseInfixExpression(left, p) ==
    LET expression(right) ==
            Parsed(InfixExpression(left, JoinChars(curToken(p).Literal), right.node), right.p)
    IN  expression(parseExpression(curPrecedence(p), nextToken(p)))

parseGroupedExpression(p) ==
    LET close(exp, closed) == IF ~closed.ok THEN Parsed(NilNode, closed.p)
                              ELSE Parsed(exp.node, closed.p)
        group(exp) == close(exp, expectPeek(exp.p, ")"))
    IN  group(parseExpression(LOWEST, nextToken(p)))

parseIfExpression(p) ==
    LET withElse(condition, consequence, alternative) ==
            Parsed(IfExpression(condition.node, consequence.node, alternative.node),
                   alternative.p)
        elseBlock(condition, consequence, lbrace) ==
            IF ~lbrace.ok THEN Parsed(NilNode, lbrace.p)
            ELSE withElse(condition, consequence, parseBlockStatement(lbrace.p))
        afterConsequence(condition, consequence) ==
            IF peekTokenIs(consequence.p, "ELSE")
            THEN elseBlock(condition, consequence, expectPeek(nextToken(consequence.p), "{"))
            ELSE Parsed(IfExpression(condition.node, consequence.node, NilNode), consequence.p)
        block(condition, lbrace) ==
            IF ~lbrace.ok THEN Parsed(NilNode, lbrace.p)
            ELSE afterConsequence(condition, parseBlockStatement(lbrace.p))
        afterCondition(condition, rparen) ==
            IF ~rparen.ok THEN Parsed(NilNode, rparen.p)
            ELSE block(condition, expectPeek(rparen.p, "{"))
        conditionAt(lparen) ==
            IF ~lparen.ok THEN Parsed(NilNode, lparen.p)
            ELSE LET closeCondition(condition) ==
                         afterCondition(condition, expectPeek(condition.p, ")"))
                 IN  closeCondition(parseExpression(LOWEST, nextToken(lparen.p)))
    IN  conditionAt(expectPeek(p, "("))

(* the loop of parseBlockStatement *)
RECURSIVE parseBlockStatementLoop(_, _)
parseBlockStatementLoop(statements, p) ==
    LET next(stmt) ==
            parseBlockStatementLoop(IF stmt.node # NilNode THEN Append(statements, stmt.node)
                                    ELSE statements,
                                    nextToken(stmt.p))
    IN  IF ~curTokenIs(p, "}") /\ ~curTokenIs(p, "EOF") THEN next(parseStatement(p))
        ELSE Parsed(BlockStatement(statements), p)

parseBlockStatement(p) == parseBlockStatementLoop(<<>>, nextToken(p))

(* the rest of the loop of parseFunctionParameters *)
RECURSIVE parseFunctionParametersLoop(_, _)
parseFunctionParametersLoop(identifiers, p) ==
    LET next(q) ==
            parseFunctionParametersLoop(Append(identifiers, JoinChars(curToken(q).Literal)), q)
        close(closed) == IF ~closed.ok THEN [names |-> <<>>, p |-> closed.p]
                         ELSE [names |-> identifiers, p |-> closed.p]
    IN  IF peekTokenIs(p, ",") THEN next(nextToken(nextToken(p)))
        ELSE close(expectPeek(p, ")"))

parseFunctionParameters(p) ==
    LET first(q) == parseFunctionParametersLoop(<<JoinChars(curToken(q).Literal)>>, q)
    IN  IF peekTokenIs(p, ")") THEN [names |-> <<>>, p |-> nextToken(p)]
        ELSE first(nextToken(p))

parseFunctionLiteral(p) ==
    LET lit(parameters, body) == Parsed(FunctionLiteral(parameters.names, body.node), body.p)
        bodyAt(parameters, lbrace) ==
            IF ~lbrace.ok THEN Parsed(NilNode, lbrace.p)
            ELSE lit(parameters, parseBlockStatement(lbrace.p))
        afterParameters(parameters) == bodyAt(parameters, expectPeek(parameters.p, "{"))
        parametersAt(lparen) ==
            IF ~lparen.ok THEN Parsed(NilNode, lparen.p)
            ELSE afterParameters(parseFunctionParameters(lparen.p))
    IN  parametersAt(expectPeek(p, "("))

parseCallExpression(function, p) ==
    LET exp(arguments) == Parsed(CallExpression(function, arguments.list), arguments.p)
    IN  exp(parseExpressionList(")", p))

(* the token kinds New registers a prefix, and an infix, function for *)
PrefixTokens ==
    {"IDENT", "INT", "STRING", "!", "-", "TRUE", "FALSE", "(", "IF", "FUNCTION", "[", "{"}

InfixTokens == {"+", "-", "/", "*", "==", "!=", "<", ">", "(", "["}

(* p.prefixParseFns[p.curToken.Type]() *)
prefixParseFns(p) ==
    CASE curTokenIs(p, "IDENT") -> parseIdentifier(p)
      [] curTokenIs(p, "INT") -> parseIntegerLiteral(p)
      [] curTokenIs(p, "STRING") -> parseStringLiteral(p)
      [] curTokenIs(p, "!") \/ curTokenIs(p, "-") -> parsePrefixExpression(p)
      [] curTokenIs(p, "TRUE") \/ curTokenIs(p, "FALSE") -> parseBoolean(p)
      [] curTokenIs(p, "(") -> parseGroupedExpression(p)
      [] curTokenIs(p, "IF") -> parseIfExpression(p)
      [] curTokenIs(p, "FUNCTION") -> parseFunctionLiteral(p)
      [] curTokenIs(p, "[") -> parseArrayLiteral(p)
      [] curTokenIs(p, "{") -> parseHashLiteral(p)

(* p.infixParseFns[p.curToken.Type](left), curToken being the operator *)
infixParseFns(left, p) ==
    CASE curTokenIs(p, "(") -> parseCallExpression(left, p)
      [] curTokenIs(p, "[") -> parseIndexExpression(left, p)
      [] OTHER -> parseInfixExpression(left, p)

(* the loop of parseExpression *)
RECURSIVE parseExpressionLoop(_, _, _)
parseExpressionLoop(precedence, leftExp, p) ==
    LET next(infix) == parseExpressionLoop(precedence, infix.node, infix.p)
    IN  IF ~peekTokenIs(p, ";") /\ precedence < peekPrecedence(p)
        THEN IF peekToken(p).Type \notin InfixTokens THEN Parsed(leftExp, p)
             ELSE next(infixParseFns(leftExp, nextToken(p)))
        ELSE Parsed(leftExp, p)

parseExpression(precedence, p) ==
    LET loop(leftExp) == parseExpressionLoop(precedence, leftExp.node, leftExp.p)
    IN  IF curToken(p).Type \notin PrefixTokens
        THEN Parsed(NilNode, noPrefixParseFnError(p, curToken(p).Type))
        ELSE loop(prefixParseFns(p))

(* if p.peekTokenIs(token.SEMICOLON) { p.nextToken() } *)
skipSemicolon(p) == IF peekTokenIs(p, ";") THEN nextToken(p) ELSE p

parseLetStatement(p) ==
    LET stmt(name, value) == Parsed(LetStatement(name, value.node), skipSemicolon(value.p))
        valueAt(name, assign) ==
            IF ~assign.ok THEN Parsed(NilLetStatement, assign.p)
            ELSE stmt(name, parseExpression(LOWEST, nextToken(assign.p)))
        nameAt(ident) ==
            IF ~ident.ok THEN Parsed(NilLetStatement, ident.p)
            ELSE valueAt(JoinChars(curToken(ident.p).Literal), expectPeek(ident.p, "="))
    IN  nameAt(expectPeek(p, "IDENT"))

parseReturnStatement(p) ==
    LET stmt(value) == Parsed(ReturnStatement(value.node), skipSemicolon(value.p))
    IN  stmt(parseExpression(LOWEST, nextToken(p)))

parseExpressionStatement(p) ==
    LET stmt(expression) ==
            Parsed(ExpressionStatement(expression.node), skipSemicolon(expression.p))
    IN  stmt(parseExpression(LOWEST, p))

parseStatement(p) ==
    CASE curTokenIs(p, "LET") -> parseLetStatement(p)
      [] curTokenIs(p, "RETURN") -> parseReturnStatement(p)
      [] OTHER -> parseExpressionStatement(p)

----------------------------------------------------------------------------
(* lib/ast/ast.go: String, for trees with no nil node where String reads   *)
(* through one                                                             *)

(* strings.Join(elems, sep) *)
RECURSIVE Join(_, _)
Join(elems, sep) ==
    IF elems = <<>> THEN ""
    ELSE IF Len(elems) = 1 THEN elems[1]
    ELSE elems[1] \o sep \o Join(Tail(elems), sep)

RECURSIVE NodeString(_)
NodeString(n) ==
    CASE n.node = "Identifier" -> n.Name
      [] n.node = "LetStatement" ->
            "let " \o n.Name \o " = " \o (IF n.Expr # NilNode THEN NodeString(n.Expr) ELSE "")
                \o ";"
      [] n.node = "ReturnStatement" ->
            "return " \o (IF n.Expr # NilNode THEN NodeString(n.Expr) ELSE "") \o ";"
      [] n.node = "ExpressionStatement" ->
            IF n.Expr # NilNode THEN NodeString(n.Expr) ELSE ""
      [] n.node = "IntegerLiteral" -> n.Literal
      [] n.node = "StringLiteral" ->
            JoinChars([i \in 1..Len(n.StrValue) |->
                IF n.StrValue[i] = 32 THEN " "
                ELSE IF n.StrValue[i] < 58 THEN Itoa(n.StrValue[i] - 48)
                ELSE Lower[n.StrValue[i] - 96]])
      [] n.node = "PrefixExpression" -> "(" \o n.Operator \o NodeString(n.Right) \o ")"
      [] n.node = "InfixExpression" ->
            "(" \o NodeString(n.Left) \o " " \o n.Operator \o " " \o NodeString(n.Right) \o ")"
      [] n.node = "Boolean" -> IF n.BoolValue THEN "true" ELSE "false"
      [] n.node = "IfExpression" ->
            "if" \o NodeString(n.Condition) \o " " \o NodeString(n.Consequence)
                \o (IF n.Alternative # NilNode THEN "else " \o NodeString(n.Alternative) ELSE "")
      [] n.node = "BlockStatement" ->
            Join([i \in 1..Len(n.Statements) |-> NodeString(n.Statements[i])], "")
      [] n.node = "FunctionLiteral" ->
            "fn" \o "(" \o Join(n.Parameters, ",") \o ")" \o NodeString(n.Body)
      [] n.node = "CallExpression" ->
            NodeString(n.Function) \o "("
                \o Join([i \in 1..Len(n.Arguments) |-> NodeString(n.Arguments[i])], ",") \o ")"
      [] n.node = "ArrayLiteral" ->
            "[" \o Join([i \in 1..Len(n.Elements) |-> NodeString(n.Elements[i])], ", ") \o "]"

(* Program.String *)
ProgramString(statements) ==
    Join([i \in 1..Len(statements) |-> NodeString(statements[i])], "")

----------------------------------------------------------------------------
(* lib/parser/parser.go: ParseProgram, one loop iteration per step.  The   *)
(* parser is <<pos, errors>> over the token stream tokens, and program is  *)
(* program.Statements.                                                     *)

(* ParseStatement without the nextToken that ends an iteration of the loop *)
parseStatementInPlace ==
    /\ pc = "parse"
    /\ ~curTokenIs([pos |-> pos, errors |-> errors], "EOF")
    /\ LET append(stmt) ==
               /\ program' = IF stmt.node # NilNode THEN Append(program, stmt.node)
                             ELSE program
               /\ pos' = stmt.p.pos
               /\ errors' = stmt.p.errors
       IN  append(parseStatement([pos |-> pos, errors |-> errors]))
    /\ UNCHANGED <<pc, tokens, lexer, evalVars>>

ParseStatement ==
    /\ pc = "parse"
    /\ ~curTokenIs([pos |-> pos, errors |-> errors], "EOF")
    /\ LET append(stmt) ==
               /\ program' = IF stmt.node # NilNode THEN Append(program, stmt.node)
                             ELSE program
               /\ pos' = nextToken(stmt.p).pos
               /\ errors' = stmt.p.errors
       IN  append(parseStatement([pos |-> pos, errors |-> errors]))
    /\ UNCHANGED <<pc, tokens, lexer, evalVars>>

ParseProgramReturn ==
    /\ pc = "parse"
    /\ curTokenIs([pos |-> pos, errors |-> errors], "EOF")
    /\ pc' = "parsed"
    /\ UNCHANGED <<program, parseVars, evalVars>>

NextParse == ParseStatement \/ ParseProgramReturn

(* ParseProgram is called on the parser New returns for the input *)
InitParser(inputs) ==
    /\ tokens \in inputs
    /\ pos = New.pos
    /\ errors = New.errors
    /\ lexer = NewLexer(<<>>)
    /\ program = <<>>
    /\ pc = "parse"
    /\ idx = 0
    /\ result = NIL
    /\ returned = Pending
    /\ heap = <<NewEnvironment>>
    /\ nextId = 1
    /\ out = <<>>

----------------------------------------------------------------------------
(* The token streams the parser is run on: what the lexer makes of the     *)
(* inputs of lib/parser/parser_test.go and of inputs like them             *)

IdentToken(name) == Token("IDENT", <<name>>)
IntToken(digit) == Token("INT", <<digit>>)
SymToken(s) == Token(s, IF s = "==" THEN <<"=", "=">> ELSE IF s = "!=" THEN <<"!", "=">> ELSE <<s>>)
LetToken == Token("LET", <<"l", "e", "t">>)
ReturnToken == Token("RETURN", <<"r", "e", "t", "u", "r", "n">>)

BinaryOperators == {"==", "!=", "<", ">", "+", "-", "*", "/"}

(* A chain is `unit op unit op ... unit`: Ops are its binary operators and *)
(* Style says how the i-th unit is written                                 *)
MaxOperands == 3

UnitStyles == {"ident", "int", "minus", "bang", "first", "double"}

UnitTokens(style, i) ==
    CASE style = "ident" -> <<IdentToken(Lower[i])>>
      [] style = "int" -> <<IntToken(Itoa(i))>>
      [] style = "minus" -> <<SymToken("-"), IdentToken(Lower[i])>>
      [] style = "bang" -> <<SymToken("!"), IntToken(Itoa(i))>>
      [] style = "first" -> IF i = 1 THEN <<SymToken("-"), IdentToken(Lower[i])>> ELSE <<IdentToken(Lower[i])>>
      [] style = "double" -> <<SymToken("!"), SymToken("-"), IdentToken(Lower[i])>>

RECURSIVE ChainTokens(_, _, _)
ChainTokens(style, ops, i) ==
    IF i > Len(ops) THEN UnitTokens(style, i)
    ELSE UnitTokens(style, i) \o <<SymToken(ops[i])>> \o ChainTokens(style, ops, i + 1)

Chains ==
    UNION {{ChainTokens(style, ops, 1) : style \in UnitStyles, ops \in [1..n -> BinaryOperators]}
           : n \in 0..(MaxOperands - 1)}

(* a + b * c + d / e - f *)
SixOperands == ChainTokens("ident", <<"+", "*", "+", "/", "-">>, 1)

(* -a * b *)
MinusATimesB == ChainTokens("first", <<"*">>, 1)

PrecedenceInputs == Chains \cup {SixOperands, MinusATimesB}

SpecPrec == InitParser(PrecedenceInputs) /\ [][NextParse]_vars

(* The chain read back from its tokens: the units, each the prefix         *)
(* operators before an operand and the operand, and the operators between  *)
(* them                                                                    *)
RECURSIVE ReadChain(_, _, _, _)
ReadChain(toks, prefixes, units, ops) ==
    IF toks = <<>> THEN [units |-> units, ops |-> ops]
    ELSE IF Head(toks).Type \in {"IDENT", "INT"}
    THEN LET unit == [prefixes |-> prefixes, operand |-> Head(toks)]
         IN  IF Len(toks) = 1 THEN [units |-> Append(units, unit), ops |-> ops]
             ELSE ReadChain(Tail(Tail(toks)), <<>>, Append(units, unit),
                            Append(ops, toks[2].Type))
    ELSE ReadChain(Tail(toks), Append(prefixes, Head(toks).Type), units, ops)

(* the four levels of the binary operators, lowest first *)
Level(op) ==
    CASE op \in {"==", "!="} -> 1
      [] op \in {"<", ">"} -> 2
      [] op \in {"+", "-"} -> 3
      [] op \in {"*", "/"} -> 4

(* the operator a left-associative chain is split at: the last of those   *)
(* of the lowest level                                                    *)
SplitAt(ops) ==
    CHOOSE k \in 1..Len(ops) :
        \A j \in 1..Len(ops) :
            /\ Level(ops[k]) <= Level(ops[j])
            /\ j > k => Level(ops[k]) < Level(ops[j])

RECURSIVE UnitTree(_, _)
UnitTree(prefixes, operand) ==
    IF prefixes # <<>> THEN PrefixExpression(Head(prefixes), UnitTree(Tail(prefixes), operand))
    ELSE IF operand.Type = "IDENT" THEN Identifier(operand.Literal[1])
    ELSE IntegerLiteral(DigitValue(operand.Literal[1]))

RECURSIVE Grouped(_, _)
Grouped(units, ops) ==
    IF Len(units) = 1 THEN UnitTree(units[1].prefixes, units[1].operand)
    ELSE LET k == SplitAt(ops)
         IN  InfixExpression(Grouped(SubSeq(units, 1, k), SubSeq(ops, 1, k - 1)),
                             ops[k],
                             Grouped(SubSeq(units, k + 1, Len(units)),
                                     SubSeq(ops, k + 1, Len(ops))))

RECURSIVE UnitText(_, _)
UnitText(prefixes, operand) ==
    IF prefixes # <<>> THEN "(" \o Head(prefixes) \o UnitText(Tail(prefixes), operand) \o ")"
    ELSE operand.Literal[1]

RECURSIVE Parenthesised(_, _)
Parenthesised(units, ops) ==
    IF Len(units) = 1 THEN UnitText(units[1].prefixes, units[1].operand)
    ELSE LET k == SplitAt(ops)
         IN  "(" \o Parenthesised(SubSeq(units, 1, k), SubSeq(ops, 1, k - 1))
                 \o " " \o ops[k] \o " "
                 \o Parenthesised(SubSeq(units, k + 1, Len(units)), SubSeq(ops, k + 1, Len(ops)))
                 \o ")"

(* C9: operator precedence and associativity.  Every chain of identifiers, *)
(* integers, prefix ! and - and the binary operators == != < > + - * /     *)
(* parses without a diagnostic into one expression statement; `a op1 b     *)
(* op2 c` is ((a op1 b) op2 c) when the level of op1 is at least that of   *)
(* op2 and (a op1 (b op2 c)) otherwise, the levels being == and != below   *)
(* < and > below + and - below * and /; a prefix operator holds its        *)
(* operand only, so it binds tighter than every binary operator; and the   *)
(* reprint of the program is the fully parenthesised form.                 *)
C9_PrecedenceAndAssociativity ==
    pc = "parsed" =>
        LET chain == ReadChain(tokens, <<>>, <<>>, <<>>)
            unit(i) == UnitTree(chain.units[i].prefixes, chain.units[i].operand)
        IN  /\ errors = <<>>
            /\ program = <<ExpressionStatement(Grouped(chain.units, chain.ops))>>
            /\ Len(chain.units) = 3 =>
                  program[1].Expr =
                      IF Level(chain.ops[1]) >= Level(chain.ops[2])
                      THEN InfixExpression(InfixExpression(unit(1), chain.ops[1], unit(2)),
                                           chain.ops[2], unit(3))
                      ELSE InfixExpression(unit(1), chain.ops[1],
                                           InfixExpression(unit(2), chain.ops[2], unit(3)))
            /\ ProgramString(program) = Parenthesised(chain.units, chain.ops)
            /\ tokens = SixOperands =>
                  ProgramString(program) = "(((a + (b * c)) + (d / e)) - f)"
            /\ tokens = MinusATimesB => ProgramString(program) = "((-a) * b)"

C9_Witness ==
    /\ pc = "parsed"
    /\ tokens = SixOperands
    /\ errors = <<>>
    /\ lexer = NewLexer(<<>>)
    /\ ProgramString(program) = "(((a + (b * c)) + (d / e)) - f)"

----------------------------------------------------------------------------
(* Inputs with malformed statements in them: up to MaxParts pieces, each a *)
(* well-formed statement or a statement that is cut short                  *)

MaxParts == 2

(* let y = 1;   return 2;   x;   1 + 2; *)
LetY == <<LetToken, IdentToken("y"), SymToken("="), IntToken("1"), SymToken(";")>>
Return2 == <<ReturnToken, IntToken("2"), SymToken(";")>>
JustX == <<IdentToken("x"), SymToken(";")>>
OnePlusTwo == <<IntToken("1"), SymToken("+"), IntToken("2"), SymToken(";")>>

(* a well-formed statement and the node it is to be parsed into *)
WellFormed ==
    {[text |-> LetY, stmt |-> LetStatement("y", IntegerLiteral(1))],
     [text |-> Return2, stmt |-> ReturnStatement(IntegerLiteral(2))],
     [text |-> JustX, stmt |-> ExpressionStatement(Identifier("x"))],
     [text |-> OnePlusTwo,
      stmt |-> ExpressionStatement(InfixExpression(IntegerLiteral(1), "+", IntegerLiteral(2)))]}

(* let   let x   let x =   let = 1;   x +   (1   fn(a *)
Malformed ==
    {<<LetToken>>,
     <<LetToken, IdentToken("x")>>,
     <<LetToken, IdentToken("x"), SymToken("=")>>,
     <<LetToken, SymToken("="), IntToken("1"), SymToken(";")>>,
     <<IdentToken("x"), SymToken("+")>>,
     <<SymToken("("), IntToken("1")>>,
     <<Token("FUNCTION", <<"f", "n">>), SymToken("("), IdentToken("a")>>}

(* if (x) {   the block is never closed, and no expectPeek fails on it *)
Unclosed ==
    <<Token("IF", <<"i", "f">>), SymToken("("), IdentToken("x"), SymToken(")"), SymToken("{")>>

Pieces == {w.text : w \in WellFormed} \cup Malformed \cup {Unclosed}

RECURSIVE Concat(_)
Concat(pieces) == IF pieces = <<>> THEN <<>> ELSE Head(pieces) \o Concat(Tail(pieces))

RecoveryInputs == UNION {{Concat(ps) : ps \in [1..n -> Pieces]} : n \in 0..MaxParts}

SpecParse == InitParser(RecoveryInputs) /\ [][NextParse]_vars

(* the statements that begin with a keyword, so that they cannot be the   *)
(* continuation of the statement before them                              *)
KeywordLed == {w \in WellFormed : Head(w.text).Type \in {"LET", "RETURN"}}

(* C10 as stated: a well-formed statement that follows a malformed one in *)
(* the input is still parsed and appears in the program's statement list. *)
C10_FollowingStatementParsed ==
    pc = "parsed" =>
        \A bad \in Malformed, good \in KeywordLed :
            tokens = bad \o good.text => \E i \in 1..Len(program) : program[i] = good.stmt

(* C10 as amended: the parser does not abort on the first error.  The     *)
(* diagnostics list only grows, every round of ParseProgram's loop moves  *)
(* the window forward and ParseProgram ends with the window at EOF.  A    *)
(* top-level let statement whose expectPeek fails (no IDENT after let, no *)
(* = after the name) adds exactly the one diagnostic `Expected next token *)
(* to be X, got Y instead` and leaves the window where it was, so the     *)
(* next statement is parsed from the token that failed the expectation;   *)
(* and a well-formed statement, closed by its semicolon, at which a round *)
(* of the loop starts is parsed and appended to the program's statement   *)
(* list.                                                                  *)
C10_ParserGoesOn ==
    [][LET peek == TokenAt(pos + 1)
           third == TokenAt(pos + 2)
           expected(t, got) == "Expected next token to be " \o t \o ", got " \o got.Type
                                   \o " instead"
           startsWith(text) == \A i \in 1..Len(text) : TokenAt(pos + i - 1) = text[i]
       IN  /\ Len(errors) <= Len(errors') /\ SubSeq(errors', 1, Len(errors)) = errors
           /\ pc' = "parse" => pos' > pos
           /\ pc' = "parsed" => TokenAt(pos').Type = "EOF"
           /\ pc' = "parse" /\ TokenAt(pos).Type = "LET" /\ peek.Type # "IDENT" =>
                 /\ errors' = Append(errors, expected("IDENT", peek))
                 /\ pos' = pos + 1
           /\ pc' = "parse" /\ TokenAt(pos).Type = "LET" /\ peek.Type = "IDENT"
                 /\ third.Type # "=" =>
                 /\ errors' = Append(errors, expected("=", third))
                 /\ pos' = pos + 2
           /\ \A good \in WellFormed :
                 pc' = "parse" /\ startsWith(good.text) =>
                     /\ program' = Append(program, good.stmt)
                     /\ errors' = errors
                     /\ pos' = pos + Len(good.text)]_vars

(* let x let y = 1; has been parsed: one diagnostic, and the second let   *)
(* is in the statement list                                               *)
C10_Witness ==
    /\ pc = "parsed"
    /\ tokens = <<LetToken, IdentToken("x")>> \o LetY
    /\ errors = <<"Expected next token to be =, got LET instead">>
    /\ program = <<NilLetStatement, LetStatement("y", IntegerLiteral(1))>>

----------------------------------------------------------------------------
(* C11: ParseProgram appends only non-null statements.  When a let is not *)
(* followed by IDENT, or its name not by =, no entry is appended for it:  *)
(* every entry of Program.Statements is a fully constructed statement,    *)
(* never the nil *LetStatement parseLetStatement returned.                *)
C11_OnlyConstructedStatements ==
    \A i \in 1..Len(program) : program[i] # NilLetStatement

----------------------------------------------------------------------------
(* evalProgram on the programs that compute one value: the operators, the *)
(* literals, indexing and the builtins                                    *)

InitEval(inputs) ==
    /\ program \in inputs
    /\ idx = 0
    /\ result = NIL
    /\ returned = Pending
    /\ pc = "loop"
    /\ heap = <<NewEnvironment>>
    /\ nextId = 1
    /\ out = <<>>
    /\ tokens = <<>>
    /\ pos = 0
    /\ errors = <<>>
    /\ lexer = NewLexer(<<>>)

(* {foobar: 1, barfoo: 2} *)
TwoErrorsHash ==
    <<ExpressionStatement(HashLiteral(<<<<Identifier("foobar"), IntegerLiteral(1)>>,
                                        <<Identifier("barfoo"), IntegerLiteral(2)>>>>))>>

(* {1: 2, 1: 3}[1] *)
EqualKeysHash ==
    <<ExpressionStatement(IndexExpression(
        HashLiteral(<<<<IntegerLiteral(1), IntegerLiteral(2)>>,
                      <<IntegerLiteral(1), IntegerLiteral(3)>>>>),
        IntegerLiteral(1)))>>

(* {1: 2, true: 3}[true] *)
DistinctKeysHash ==
    <<ExpressionStatement(IndexExpression(
        HashLiteral(<<<<IntegerLiteral(1), IntegerLiteral(2)>>,
                      <<Boolean(TRUE), IntegerLiteral(3)>>>>),
        Boolean(TRUE)))>>

HashOrderPrograms == {TwoErrorsHash, EqualKeysHash, DistinctKeysHash}

(* C12: the pairs of a hash literal are evaluated in source order: when   *)
(* two pairs both evaluate to an Error the result is the Error of the     *)
(* leftmost pair, and with two equal keys the value stored is that of the *)
(* rightmost pair, whichever order the pairs are visited in.              *)
C12_HashPairsInSourceOrder ==
    pc = "done" =>
        /\ program = TwoErrorsHash => returned = newError("Identifier not found: foobar")
        /\ program = EqualKeysHash => returned = Integer(3)

(* TestErrorHandling, TestBuiltinFunctions: a name looked up before and   *)
(* after a let binds it, at the top level and from inside a function      *)

(* b; let b = 5; b; let g = fn() { b }; g() *)
ShadowProgram(b) ==
    <<ExpressionStatement(Identifier(b)),
      LetStatement(b, IntegerLiteral(5)),
      ExpressionStatement(Identifier(b)),
      LetStatement("g", FunctionLiteral(<<>>,
          BlockStatement(<<ExpressionStatement(Identifier(b))>>))),
      ExpressionStatement(Call("g", <<>>))>>

(* let g = fn(b) { b }; g(7); b *)
ParameterProgram(b) ==
    <<LetStatement("g", FunctionLiteral(<<b>>,
          BlockStatement(<<ExpressionStatement(Identifier(b))>>))),
      ExpressionStatement(Call("g", <<IntegerLiteral(7)>>)),
      ExpressionStatement(Identifier(b))>>

LookupNames == BuiltinNames \cup {"foobar"}

IdentifierPrograms ==
    {ShadowProgram(b) : b \in LookupNames} \cup {ParameterProgram(b) : b \in LookupNames}

(* C13: identifier resolution order.  An identifier evaluates to its      *)
(* binding in the environment chain if there is one, otherwise to the     *)
(* builtin of that name, otherwise to the Error `Identifier not found`;   *)
(* a let of a builtin's name shadows the builtin for every later lookup   *)
(* in that scope, and the builtin is found again where the binding is not *)
(* in scope.                                                              *)
C13_IdentifierResolution ==
    LET unbound(n) == IF n \in {"len", "first", "last", "tail", "push", "puts"}
                      THEN Builtin(n)
                      ELSE newError("Identifier not found: " \o n)
    IN  \A b \in LookupNames :
            /\ program = ShadowProgram(b) =>
                  /\ pc # "panic"
                  /\ idx = 1 => result = unbound(b)
                  /\ idx = 1 /\ b = "foobar" => pc = "done"
                  /\ idx \in {3, 5} => result = Integer(5)
            /\ program = ParameterProgram(b) =>
                  /\ pc # "panic"
                  /\ idx = 2 => result = Integer(7)
                  /\ idx = 3 => result = unbound(b) /\ b \notin DOMAIN heap[1].store

C13_Witness ==
    /\ program = ShadowProgram("len")
    /\ pc = "done"
    /\ idx = 5
    /\ returned = Integer(5)

(* TestEvalIntegerExpression: a op b for the integers from -MaxInt to     *)
(* MaxInt, a negative one written with the prefix minus                   *)
MaxInt == 3

IntRange == (0 - MaxInt)..MaxInt

IntegerNode(a) ==
    IF a < 0 THEN PrefixExpression("-", IntegerLiteral(0 - a)) ELSE IntegerLiteral(a)

InfixProgram(a, op, b) ==
    <<ExpressionStatement(InfixExpression(IntegerNode(a), op, IntegerNode(b)))>>

IntegerInfixPrograms ==
    {InfixProgram(a, op, b) : a \in IntRange, b \in IntRange, op \in BinaryOperators}

(* C14: integer infix evaluation is total on integers.  For all Integer   *)
(* operands a and b, + - * and / give the Integer sum, difference,        *)
(* product and truncated quotient and < > == != the canonical Boolean of  *)
(* the comparison; no pair of operands, b = 0 for / included, makes the   *)
(* evaluation fail to return a value.                                     *)
C14_IntegerInfixTotal ==
    \A a \in IntRange, b \in IntRange, op \in BinaryOperators :
        program = InfixProgram(a, op, b) /\ pc # "loop" =>
            /\ pc = "done"
            /\ op = "+" => returned = Integer(a + b)
            /\ op = "-" => returned = Integer(a - b)
            /\ op = "*" => returned = Integer(a * b)
            /\ op = "/" =>
                  /\ returned.Type = "INTEGER"
                  /\ b # 0 =>
                        \E r \in IntRange :
                            /\ a = returned.Value * b + r
                            /\ r * r < b * b
                            /\ r * a >= 0
            /\ op = "<" => returned = (IF a < b THEN TRUEOBJ ELSE FALSEOBJ)
            /\ op = ">" => returned = (IF a > b THEN TRUEOBJ ELSE FALSEOBJ)
            /\ op = "==" => returned = (IF a = b THEN TRUEOBJ ELSE FALSEOBJ)
            /\ op = "!=" => returned = (IF a # b THEN TRUEOBJ ELSE FALSEOBJ)

(* TestEvalBooleanExpression and TestErrorHandling: x op y after          *)
(* let a = [1], for operands of every type.  Each operand carries the     *)
(* type of its value and the object it denotes: "new" for a literal that  *)
(* allocates its value at every evaluation.                               *)
NullExpression == IfExpression(Boolean(FALSE), BlockStatement(<<>>), NilNode)

Operands ==
    { [Expr |-> Boolean(TRUE), Type |-> "BOOLEAN", Name |-> "TRUE"],
      [Expr |-> Boolean(FALSE), Type |-> "BOOLEAN", Name |-> "FALSE"],
      [Expr |-> NullExpression, Type |-> "NULL", Name |-> "NULL"],
      [Expr |-> IntegerLiteral(1), Type |-> "INTEGER", Name |-> "new"],
      [Expr |-> StringLiteral(<<97>>), Type |-> "STRING", Name |-> "new"],
      [Expr |-> ArrayLiteral(<<IntegerLiteral(1)>>), Type |-> "ARRAY", Name |-> "new"],
      [Expr |-> Identifier("a"), Type |-> "ARRAY", Name |-> "a"],
      [Expr |-> Identifier("len"), Type |-> "BUILTIN", Name |-> "len"] }

ComparisonProgram(x, op, y) ==
    << LetStatement("a", ArrayLiteral(<<IntegerLiteral(1)>>)),
       ExpressionStatement(InfixExpression(x.Expr, op, y.Expr)) >>

ComparisonPrograms ==
    {ComparisonProgram(x, op, y) : x \in Operands, y \in Operands, op \in BinaryOperators}

SameObject(x, y) == x.Name = y.Name /\ x.Name # "new"

(* C15: for operands that are not both Integer and not both String, ==    *)
(* is identity comparison and != its negation; operands of different      *)
(* types give FALSE for == and TRUE for != and a "type mismatch" Error    *)
(* for the other operators only; two String operands with == or != give   *)
(* the Error "Invalid operator: STRING <op> STRING".                      *)
C15_EqualityIsIdentity ==
    \A x \in Operands, y \in Operands, op \in BinaryOperators :
        program = ComparisonProgram(x, op, y) /\ pc = "done" =>
            LET bothInteger == x.Type = "INTEGER" /\ y.Type = "INTEGER"
                bothString == x.Type = "STRING" /\ y.Type = "STRING"
                mismatch == newError("type mismatch: " \o x.Type \o " " \o op \o " " \o y.Type)
            IN  /\ ~bothInteger /\ ~bothString /\ op = "==" =>
                      returned = (IF SameObject(x, y) THEN TRUEOBJ ELSE FALSEOBJ)
                /\ ~bothInteger /\ ~bothString /\ op = "!=" =>
                      returned = (IF SameObject(x, y) THEN FALSEOBJ ELSE TRUEOBJ)
                /\ x.Type # y.Type =>
                      (returned = mismatch <=> op \notin {"==", "!="})
                /\ x.Type = y.Type => returned # mismatch
                /\ bothString /\ op \in {"==", "!="} =>
                      returned = newError("Invalid operator: STRING " \o op \o " STRING")

C15_Witness ==
    /\ \E x \in Operands, y \in Operands :
          /\ x.Type = "INTEGER" /\ y.Type = "BOOLEAN"
          /\ program = ComparisonProgram(x, "!=", y)
    /\ pc = "done"
    /\ returned = TRUEOBJ

(* TestIfElseExpressions and TestNotOperator: for a condition v the       *)
(* program                                                                *)
(*     if (v) { 10 } else { 20 };  if (v) { 10 };  !v;  !!v               *)
(* Each condition says whether its value is NULL or FALSE.                *)
Call0(body) == CallExpression(FunctionLiteral(<<>>, BlockStatement(body)), <<>>)

Conditions ==
    { [Expr |-> Boolean(TRUE), Falsy |-> FALSE],
      [Expr |-> Boolean(FALSE), Falsy |-> TRUE],
      [Expr |-> NullExpression, Falsy |-> TRUE],
      [Expr |-> CallExpression(Identifier("first"), <<ArrayLiteral(<<>>)>>), Falsy |-> TRUE],
      [Expr |-> InfixExpression(IntegerLiteral(1), ">", IntegerLiteral(2)), Falsy |-> TRUE],
      [Expr |-> InfixExpression(IntegerLiteral(1), "<", IntegerLiteral(2)), Falsy |-> FALSE],
      [Expr |-> PrefixExpression("!", IntegerLiteral(0)), Falsy |-> TRUE],
      [Expr |-> IntegerLiteral(0), Falsy |-> FALSE],
      [Expr |-> IntegerLiteral(1), Falsy |-> FALSE],
      [Expr |-> StringLiteral(<<>>), Falsy |-> FALSE],
      [Expr |-> StringLiteral(<<97>>), Falsy |-> FALSE],
      [Expr |-> ArrayLiteral(<<>>), Falsy |-> FALSE],
      [Expr |-> HashLiteral(<<>>), Falsy |-> FALSE],
      [Expr |-> Identifier("len"), Falsy |-> FALSE],
      [Expr |-> FunctionLiteral(<<>>, BlockStatement(<<>>)), Falsy |-> FALSE],
      [Expr |-> Call0(<<LetStatement("z", IntegerLiteral(1))>>), Falsy |-> FALSE] }

Block1(n) == BlockStatement(<<ExpressionStatement(IntegerLiteral(n))>>)

TruthinessProgram(v) ==
    << ExpressionStatement(IfExpression(v.Expr, Block1(10), Block1(20))),
       ExpressionStatement(IfExpression(v.Expr, Block1(10), NilNode)),
       ExpressionStatement(PrefixExpression("!", v.Expr)),
       ExpressionStatement(PrefixExpression("!", PrefixExpression("!", v.Expr))) >>

TruthinessPrograms == {TruthinessProgram(v) : v \in Conditions}

(* C16: truthiness is the same for if and !.  A value is falsy exactly    *)
(* when it is NULL or FALSE; an if-expression whose condition is truthy   *)
(* (Integer 0 included) evaluates its consequence, otherwise its          *)
(* alternative, or yields NULL when there is none; !v is TRUE exactly     *)
(* when v is falsy, so !!v is TRUE exactly when if (v) takes the          *)
(* consequence.                                                           *)
C16_TruthinessAgrees ==
    \A v \in Conditions :
        program = TruthinessProgram(v) =>
            /\ pc # "panic"
            /\ idx = 1 => result = (IF v.Falsy THEN Integer(20) ELSE Integer(10))
            /\ idx = 2 => result = (IF v.Falsy THEN NULL ELSE Integer(10))
            /\ idx = 3 => result = (IF v.Falsy THEN TRUEOBJ ELSE FALSEOBJ)
            /\ idx = 4 => result = (IF v.Falsy THEN FALSEOBJ ELSE TRUEOBJ)
            /\ pc = "done" => idx = 4 /\ returned = result

C16_Witness ==
    /\ program = TruthinessProgram([Expr |-> IntegerLiteral(0), Falsy |-> FALSE])
    /\ pc = "done"
    /\ returned = TRUEOBJ

(* TestArrayIndexExpressions: an array of n elements 10, 20, ... indexed   *)
(* by i, once through a binding and once as a literal:                    *)
(*     let a = [10, 20]; a[i]          [10, 20][i]                        *)
MaxLen == 3

ArrayOf(n) == ArrayLiteral([k \in 1..n |-> IntegerLiteral(10 * k)])

IndexRange == (0 - (MaxLen + 1))..(MaxLen + 1)

BoundIndexProgram(n, i) ==
    << LetStatement("a", ArrayOf(n)),
       ExpressionStatement(IndexExpression(Identifier("a"), IntegerNode(i))) >>

LiteralIndexProgram(n, i) ==
    <<ExpressionStatement(IndexExpression(ArrayOf(n), IntegerNode(i)))>>

ArrayIndexPrograms ==
    {BoundIndexProgram(n, i) : n \in 0..MaxLen, i \in IndexRange}
        \cup {LiteralIndexProgram(n, i) : n \in 0..MaxLen, i \in IndexRange}

Colliding1 ==    \* "8yn0iYCKYHlIj4-BwPqk"
    <<56, 121, 110, 48, 105, 89, 67, 75, 89, 72, 108, 73, 106, 52, 45, 66, 119, 80, 113, 107>>

Colliding2 ==    \* "GReLUrM4wMqfg9yzV3KQ"
    <<71, 82, 101, 76, 85, 114, 77, 52, 119, 77, 113, 102, 103, 57, 121, 122, 86, 51, 75, 81>>

HashKeys ==
    << IntegerLiteral(1), IntegerLiteral(0), Boolean(TRUE), Boolean(FALSE),
       StringLiteral(<<97>>), StringLiteral(<<98>>),
       StringLiteral(Colliding1), StringLiteral(Colliding2) >>

Unhashables ==
    { [Expr |-> FunctionLiteral(<<>>, BlockStatement(<<>>)), Type |-> "FUNCTION"],
      [Expr |-> ArrayLiteral(<<>>), Type |-> "ARRAY"],
      [Expr |-> HashLiteral(<<>>), Type |-> "HASH"],
      [Expr |-> NullExpression, Type |-> "NULL"],
      [Expr |-> Identifier("len"), Type |-> "BUILTIN"] }

(* the sets of at most two of the keys, as the positions in HashKeys *)
KeySets == {s \in SUBSET (1..Len(HashKeys)) : Cardinality(s) <= 2}

RECURSIVE PairsOf(_)
PairsOf(s) ==
    IF s = {} THEN <<>>
    ELSE LET j == CHOOSE x \in s : \A y \in s : x <= y
         IN  <<<<HashKeys[j], IntegerLiteral(10 * j)>>>> \o PairsOf(s \ {j})

HashIndexProgram(s, index) ==
    << LetStatement("h", HashLiteral(PairsOf(s))),
       ExpressionStatement(IndexExpression(Identifier("h"), index)) >>

HashIndexPrograms ==
    {HashIndexProgram(s, HashKeys[j]) : s \in KeySets, j \in 1..Len(HashKeys)}
        \cup {HashIndexProgram(s, u.Expr) : s \in KeySets, u \in Unhashables}

(* C18: hash indexing.  For a Hash h and an index k that is an Integer,   *)
(* Boolean or String, h[k] is the value stored in h under a key equal to  *)
(* k, or NULL when h has no such key (the empty hash included); for an    *)
(* index of any other type it is the Error "Unusable as hash key: <type>" *)
C18_HashIndexValueOrNull ==
    \A s \in KeySets :
        /\ \A j \in 1..Len(HashKeys) :
              program = HashIndexProgram(s, HashKeys[j]) =>
                  /\ pc # "panic"
                  /\ pc = "done" => returned = (IF j \in s THEN Integer(10 * j) ELSE NULL)
        /\ \A u \in Unhashables :
              program = HashIndexProgram(s, u.Expr) =>
                  /\ pc # "panic"
                  /\ pc = "done" => returned = newError("Unusable as hash key: " \o u.Type)

(* object_test.go (TestStringHashKey, TestIntHashKey, TestBooleanHashKey) *)
(* through the evaluator: the hash literal {x: 1, y: 2} has one pair when *)
(* the HashKeys of x and y are equal and two when they differ.            *)
HashableValues ==
    << IntegerNode(-1), IntegerLiteral(0), IntegerLiteral(1), IntegerLiteral(2),
       Boolean(TRUE), Boolean(FALSE),
       StringLiteral(<<>>), StringLiteral(<<97>>), StringLiteral(<<98>>),
       StringLiteral(<<97, 98>>), StringLiteral(<<98, 97>>), StringLiteral(<<49>>),
       StringLiteral(Colliding1), StringLiteral(Colliding2) >>

TwoKeysProgram(i, j) ==
    <<ExpressionStatement(HashLiteral(<< <<HashableValues[i], IntegerLiteral(1)>>,
                                         <<HashableValues[j], IntegerLiteral(2)>> >>))>>

HashKeyPrograms ==
    {TwoKeysProgram(i, j) : i \in 1..Len(HashableValues), j \in 1..Len(HashableValues)}

(* C19: equality of HashKey implies equality of the source value.  Two    *)
(* hashable values have equal HashKeys exactly when they have the same    *)
(* type and the same payload: Integer 1 and Boolean true differ, distinct *)
(* integers differ, strings with equal contents agree and strings with    *)
(* different contents differ.                                             *)
C19_HashKeyInjective ==
    \A i \in 1..Len(HashableValues), j \in 1..Len(HashableValues) :
        program = TwoKeysProgram(i, j) /\ pc = "done" =>
            /\ returned.Type = "HASH"
            /\ Cardinality(DOMAIN returned.Pairs) = 1 <=> i = j

(* TestBuiltinFunctions (push, tail): for an array a of n elements        *)
(*     let a = [10, 20]; let b = f(a); let c = g(x); a; b; c; a == b      *)
(* where f and g are push(., 99) or tail(.) and x is a or b.              *)
ArrayOps == {"push", "tail"}

OpCall(op, name) ==
    IF op = "push"
    THEN CallExpression(Identifier("push"), <<Identifier(name), IntegerLiteral(99)>>)
    ELSE CallExpression(Identifier("tail"), <<Identifier(name)>>)

PushTailProgram(n, f, g, x) ==
    << LetStatement("a", ArrayOf(n)),
       LetStatement("b", OpCall(f, "a")),
       LetStatement("c", OpCall(g, x)),
       ExpressionStatement(Identifier("a")),
       ExpressionStatement(Identifier("b")),
       ExpressionStatement(Identifier("c")),
       ExpressionStatement(InfixExpression(Identifier("a"), "==", Identifier("b"))) >>

PushTailPrograms ==
    {PushTailProgram(n, f, g, x) : n \in 0..MaxLen, f \in ArrayOps, g \in ArrayOps, x \in {"a", "b"}}

(* What the claim expects of push and tail, on the sequence of the        *)
(* integers an array holds; tail of the empty array is NULL.              *)
Expected(op, elements) ==
    IF op = "push" THEN [IsArray |-> TRUE, Ints |-> Append(elements, 99)]
    ELSE IF elements # <<>> THEN [IsArray |-> TRUE, Ints |-> Tail(elements)]
    ELSE [IsArray |-> FALSE, Ints |-> <<>>]

Holds(obj, expected) ==
    IF expected.IsArray
    THEN /\ obj.Type = "ARRAY"
         /\ obj.Elements = [k \in 1..Len(expected.Ints) |-> Integer(expected.Ints[k])]
    ELSE obj = NULL

(* C20: push(a, x) returns a new array whose length is len(a) + 1, whose  *)
(* first len(a) elements are the elements of a in order and whose last    *)
(* element is x, without mutating a: after any sequence of push and tail  *)
(* calls on arrays reachable from a binding, that binding still evaluates *)
(* to an array with the elements it had before.                           *)
C20_PushDoesNotMutate ==
    \A n \in 0..MaxLen, f \in ArrayOps, g \in ArrayOps, x \in {"a", "b"} :
        program = PushTailProgram(n, f, g, x) =>
            LET a == [IsArray |-> TRUE, Ints |-> [k \in 1..n |-> 10 * k]]
                b == Expected(f, a.Ints)
                c == Expected(g, IF x = "a" THEN a.Ints ELSE b.Ints)
            IN  /\ pc # "panic"
                /\ idx = 4 => Holds(result, a)
                /\ idx = 5 => Holds(result, b)
                /\ idx = 6 => Holds(result, c)
                /\ idx = 7 => result = FALSEOBJ
                /\ pc = "done" /\ (x = "a" \/ b.IsArray) => idx = 7

C20_Witness ==
    /\ program = PushTailProgram(2, "push", "tail", "b")
    /\ idx = 6
    /\ result.Type = "ARRAY"
    /\ result.Elements = <<Integer(20), Integer(99)>>

(* TestBuiltinFunctions (len, first, last, tail): for an array a of n     *)
(* elements 10, 20, ...                                                   *)
(*     let a = [10, 20]; first(a); last(a); tail(a); len(a); tail(a) == a *)
Call1(name, arg) == CallExpression(Identifier(name), <<arg>>)

ArrayBuiltinsProgram(n) ==
    << LetStatement("a", ArrayOf(n)),
       ExpressionStatement(Call1("first", Identifier("a"))),
       ExpressionStatement(Call1("last", Identifier("a"))),
       ExpressionStatement(Call1("tail", Identifier("a"))),
       ExpressionStatement(Call1("len", Identifier("a"))),
       ExpressionStatement(InfixExpression(Call1("tail", Identifier("a")), "==", Identifier("a"))),
       ExpressionStatement(Identifier("a")) >>

ArrayBuiltinsPrograms == {ArrayBuiltinsProgram(n) : n \in 0..MaxLen}

(* C21: for every array a, first(a) is element 0 and last(a) element      *)
(* len(a) - 1 when a is non-empty and both are NULL when a is empty;      *)
(* tail(a) is a new array of the elements 1 .. len(a) - 1 in order (the   *)
(* empty array for a one-element a) when a is non-empty and NULL when a   *)
(* is empty; len(a) is the element count.                                 *)
C21_ArrayBuiltins ==
    \A n \in 0..MaxLen :
        program = ArrayBuiltinsProgram(n) =>
            /\ pc # "panic"
            /\ idx = 2 => result = (IF n > 0 THEN Integer(10) ELSE NULL)
            /\ idx = 3 => result = (IF n > 0 THEN Integer(10 * n) ELSE NULL)
            /\ idx = 4 =>
                  IF n > 0
                  THEN /\ result.Type = "ARRAY"
                       /\ result.Elements = [k \in 1..(n - 1) |-> Integer(10 * (k + 1))]
                  ELSE result = NULL
            /\ idx = 5 => result = Integer(n)
            /\ idx = 6 => result = FALSEOBJ
            /\ idx = 7 =>
                  /\ result.Type = "ARRAY"
                  /\ result.Elements = [k \in 1..n |-> Integer(10 * k)]
            /\ pc = "done" => idx = 7

C21_Witness ==
    /\ program = ArrayBuiltinsProgram(1)
    /\ idx = 4
    /\ result.Type = "ARRAY"
    /\ result.Elements = <<>>

(* TestFunctionApplication with more arguments than parameters: for a     *)
(* function of n parameters                                               *)
(*     let f = fn(x, y) { x - y }; f(1, 2); f(1, 2, 3, puts(9))           *)
MaxExtra == 2

FunctionOf(n) ==
    CASE n = 0 -> FunctionLiteral(<<>>, Block1(7))
      [] n = 1 -> FunctionLiteral(<<"x">>, BlockStatement(<<ExpressionStatement(Identifier("x"))>>))
      [] n = 2 -> FunctionLiteral(<<"x", "y">>, BlockStatement(<<ExpressionStatement(
                      InfixExpression(Identifier("x"), "-", Identifier("y")))>>))

(* the arguments beyond the parameters: 3 or puts(9) *)
ExtraPool == {IntegerLiteral(3), Call1("puts", IntegerLiteral(9))}

Extras == UNION {[1..k -> ExtraPool] : k \in 1..MaxExtra}

ExcessProgram(n, extra) ==
    LET firstN == [k \in 1..n |-> IntegerLiteral(k)]
    IN  << LetStatement("f", FunctionOf(n)),
           ExpressionStatement(CallExpression(Identifier("f"), firstN)),
           ExpressionStatement(CallExpression(Identifier("f"), firstN \o extra)) >>

ExcessPrograms == {ExcessProgram(n, extra) : n \in 0..2, extra \in Extras}

(* C22: arity is not enforced for user functions and excess arguments are *)
(* ignored.  A call of a function of n parameters with m > n arguments    *)
(* evaluates all m arguments, binds the first n to the parameters and     *)
(* binds nothing for the rest, so when no argument evaluates to an Error  *)
(* the result equals that of the call with only the first n arguments.    *)
C22_ExcessArgumentsIgnored ==
    \A n \in 0..2, extra \in Extras :
        program = ExcessProgram(n, extra) =>
            LET value == CASE n = 0 -> Integer(7) [] n = 1 -> Integer(1) [] n = 2 -> Integer(-1)
                puts == SelectSeq(extra, LAMBDA e : e.node = "CallExpression")
            IN  /\ pc # "panic"
                /\ idx = 2 => result = value /\ out = <<>>
                /\ idx = 3 =>
                      /\ result = value
                      /\ out = [k \in 1..Len(puts) |-> Integer(9)]
                      /\ DOMAIN heap[Len(heap)].store = {FunctionOf(n).Parameters[k] : k \in 1..n}
                /\ pc = "done" => idx = 3

C22_Witness ==
    /\ program = ExcessProgram(2, <<IntegerLiteral(3), Call1("puts", IntegerLiteral(9))>>)
    /\ pc = "done"
    /\ returned = Integer(-1)
    /\ out = <<Integer(9)>>

(* TestLetStatements and TestErrorHandling: a let whose right-hand side   *)
(* is r, at the top level after let b = 2 (and, when `bound`, after       *)
(* let a = 1) and in the body of a function:                              *)
(*     let a = 1; let b = 2; let a = r; a; b                              *)
(*     let a = 1; let f = fn() { let a = r; a }; f(); a                   *)
(* Each right-hand side carries the object it evaluates to.               *)
RightHandSides ==
    { [Expr |-> IntegerLiteral(5), Inner |-> Integer(5)],
      [Expr |-> Boolean(TRUE), Inner |-> TRUEOBJ],
      [Expr |-> StringLiteral(<<97>>), Inner |-> String(<<97>>)],
      [Expr |-> NullExpression, Inner |-> NULL],
      [Expr |-> Identifier("b"), Inner |-> Integer(2)],
      [Expr |-> Identifier("foobar"), Inner |-> newError("Identifier not found: foobar")],
      [Expr |-> PrefixExpression("-", Boolean(TRUE)),
       Inner |-> newError("Illegal prefix operation, expected integer, received: -BOOLEAN")],
      [Expr |-> InfixExpression(IntegerLiteral(1), "+", Boolean(TRUE)),
       Inner |-> newError("type mismatch: INTEGER + BOOLEAN")] }

TopLetProgram(bound, r) ==
    (IF bound THEN <<LetStatement("a", IntegerLiteral(1))>> ELSE <<>>)
        \o << LetStatement("b", IntegerLiteral(2)),
              LetStatement("a", r.Expr),
              ExpressionStatement(Identifier("a")),
              ExpressionStatement(Identifier("b")) >>

InnerLetProgram(r) ==
    << LetStatement("a", IntegerLiteral(1)),
       LetStatement("b", IntegerLiteral(2)),
       LetStatement("f", FunctionLiteral(<<>>, BlockStatement(
           <<LetStatement("a", r.Expr), ExpressionStatement(Identifier("a"))>>))),
       ExpressionStatement(CallExpression(Identifier("f"), <<>>)),
       ExpressionStatement(Identifier("a")) >>

LetPrograms ==
    {TopLetProgram(bound, r) : bound \in BOOLEAN, r \in RightHandSides}
        \cup {InnerLetProgram(r) : r \in RightHandSides}

(* the bindings of a and b in frame e, a missing one as NIL *)
Bindings(e) ==
    [n \in {"a", "b"} |-> IF n \in DOMAIN heap[e].store THEN heap[e].store[n] ELSE NIL]

(* C26: a let whose right-hand side evaluates to an Error leaves the      *)
(* environment unchanged (the name keeps its binding, or stays unbound)   *)
(* and surfaces that Error; otherwise it adds or replaces exactly the     *)
(* binding of its name in the innermost frame and changes no other        *)
(* binding, so after let a = v1; let a = v2; the name a evaluates to v2.  *)
C26_LetBindsOrSurfaces ==
    \A r \in RightHandSides :
        LET failed == r.Inner.Type = "ERROR"
        IN  /\ \A bound \in BOOLEAN :
                  program = TopLetProgram(bound, r) =>
                      LET k == IF bound THEN 3 ELSE 2
                          before == IF bound THEN Integer(1) ELSE NIL
                      IN  /\ pc # "panic"
                          /\ idx = k - 1 => Bindings(1) = [n \in {"a", "b"} |->
                                                IF n = "a" THEN before ELSE Integer(2)]
                          /\ idx >= k => Bindings(1) = [n \in {"a", "b"} |->
                                                IF n = "b" THEN Integer(2)
                                                ELSE IF failed THEN before ELSE r.Inner]
                          /\ idx >= k /\ failed => idx = k /\ pc = "done" /\ returned = r.Inner
                          /\ idx = k + 1 => result = r.Inner
                          /\ idx = k + 2 => result = Integer(2)
            /\ program = InnerLetProgram(r) =>
                  /\ pc # "panic"
                  /\ idx >= 2 => Bindings(1) = [n \in {"a", "b"} |->
                                        IF n = "a" THEN Integer(1) ELSE Integer(2)]
                  /\ idx >= 4 =>
                        /\ Len(heap) = 2
                        /\ Bindings(2) = [n \in {"a", "b"} |->
                                              IF n = "a" /\ ~failed THEN r.Inner ELSE NIL]
                        /\ failed => idx = 4 /\ pc = "done" /\ returned = r.Inner
                  /\ idx = 4 /\ ~failed => result = r.Inner
                  /\ idx = 5 => result = Integer(1)

C26_Witness ==
    /\ \E r \in RightHandSides : r.Inner = Integer(5) /\ program = TopLetProgram(TRUE, r)
    /\ idx = 4
    /\ result = Integer(5)

(* Programs that end in a statement without a value: the empty program,   *)
(*     let a = 1;      if (true) {}      fn() {}()      if (true) { let a = 1; } *)
NoValuePrograms ==
    { <<>>,
      <<LetStatement("a", IntegerLiteral(1))>>,
      <<ExpressionStatement(IfExpression(Boolean(TRUE), BlockStatement(<<>>), NilNode))>>,
      <<ExpressionStatement(Call0(<<>>))>>,
      <<ExpressionStatement(IfExpression(Boolean(TRUE),
            BlockStatement(<<LetStatement("a", IntegerLiteral(1))>>), NilNode))>> }

ValueTypes ==
    {"INTEGER", "BOOLEAN", "STRING", "NULL", "ARRAY", "HASH", "FUNCTION", "BUILTIN",
     "RETURN_VALUE", "ERROR"}

(* C27: Eval returns a Value for every node of a program parsed without   *)
(* diagnostics.  The result is always one of the value variants and never *)
(* absent, also for a program or block whose last statement is a let, for *)
(* the empty program, for an if-expression with an empty block and for a  *)
(* call of a function with an empty body.                                 *)
C27_EvalReturnsValue ==
    pc = "done" => returned.Type \in ValueTypes

----------------------------------------------------------------------------
(* A client of the lexer (Parser.nextToken, lexer_test.go) calls NextToken  *)
(* again and again; tokens is the sequence of the tokens returned.          *)

MaxInput == 3        \* bytes in an input
MaxCallsAfter == 2   \* calls of NextToken beyond len(input) + 1

(* the bytes of the inputs: two letters that make a keyword, a digit, the  *)
(* letter $, the operators = and !, a space, a byte that starts no token,  *)
(* the byte 0 and the double quote                                         *)
Alphabet == {"f", "n", "1", "$", "=", "!", " ", "@", NUL, "\""}

LexerInputs == UNION {[1..k -> Alphabet] : k \in 0..MaxInput}

InitLexer(inputs) ==
    /\ \E input \in inputs : lexer = NewLexer(input)
    /\ tokens = <<>>
    /\ pc = "lex"
    /\ pos = 0
    /\ errors = <<>>
    /\ program = <<>>
    /\ idx = 0
    /\ result = NIL
    /\ returned = Pending
    /\ heap = <<NewEnvironment>>
    /\ nextId = 1
    /\ out = <<>>

CallNextToken ==
    /\ pc = "lex"
    /\ Len(tokens) < Len(lexer.input) + 1 + MaxCallsAfter
    /\ LET call(r) == tokens' = Append(tokens, r.tok) /\ lexer' = r.l
       IN  call(NextToken(lexer))
    /\ UNCHANGED <<program, pc, pos, errors, evalVars>>

SpecLex == InitLexer(LexerInputs) /\ [][CallNextToken]_vars

(* C23: the lexer never fails and always ends with the end-of-input       *)
(* sentinel.  For every finite input each NextToken call returns a token  *)
(* (a byte that starts no token becomes an ILLEGAL token whose literal is *)
(* that byte), an EOF token with empty literal is returned after at most  *)
(* len(input) + 1 calls, and every call after the first EOF returns EOF   *)
(* again.                                                                 *)
C23_EOFIsFinal ==
    /\ \A i \in 1..Len(tokens) :
          /\ tokens[i].Type = "EOF" => tokens[i] = EOFToken
          /\ \A j \in (i + 1)..Len(tokens) : tokens[i].Type = "EOF" => tokens[j] = EOFToken
    /\ Len(tokens) >= Len(lexer.input) + 1 =>
          \E i \in 1..(Len(lexer.input) + 1) : tokens[i] = EOFToken
    /\ \A c \in Alphabet :
          /\ lexer.input = <<c>> /\ tokens # <<>>
          /\ ~isLetter(c) /\ ~isDigit(c) /\ c \notin {"=", "!", " ", "\""}
          => tokens[1] = Token("ILLEGAL", <<c>>)

(* the longest prefix of input made of letters and digits *)
RECURSIVE Run(_)
Run(input) ==
    IF input # <<>> /\ (isLetter(Head(input)) \/ isDigit(Head(input)))
    THEN <<Head(input)>> \o Run(Tail(input))
    ELSE <<>>

(* C24: identifier character class.  An identifier or keyword token       *)
(* starts with a character of [A-Za-z_$] and extends over the maximal     *)
(* following run of characters of [A-Za-z0-9_$], so x1 or add2 is a       *)
(* single IDENT token whose literal is the whole run, not an IDENT        *)
(* followed by an INT.                                                    *)
C24_IdentifierRun ==
    lexer.input # <<>> /\ isLetter(Head(lexer.input)) /\ tokens # <<>> =>
        LET run == Run(lexer.input)
        IN  tokens[1] = Token(LookupIdent(JoinChars(run)), run)

RECURSIVE Literals(_)
Literals(toks) ==
    IF toks = <<>> THEN <<>> ELSE Head(toks).Literal \o Literals(Tail(toks))

(* C29: the lexer neither skips nor repeats a byte.  For every input that *)
(* contains no double quote the concatenation, in order, of the literals  *)
(* of the tokens returned before EOF equals the input with the whitespace *)
(* characters space, tab, newline and carriage return removed.            *)
C29_EveryByteOnce ==
    /\ \A i \in 1..Len(lexer.input) : lexer.input[i] # "\""
    /\ \E i \in 1..Len(tokens) : tokens[i].Type = "EOF"
    => LET first == CHOOSE i \in 1..Len(tokens) :
                        /\ tokens[i].Type = "EOF"
                        /\ \A j \in 1..(i - 1) : tokens[j].Type # "EOF"
       IN  Literals(SubSeq(tokens, 1, first - 1))
               = SelectSeq(lexer.input, LAMBDA c : c \notin {" ", "\t", "\n", "\r"})

----------------------------------------------------------------------------
(* ParseProgram on token streams: integer literals, parameter lists and   *)
(* streams that end inside a construct                                     *)

MaxDigits == 3

Digits == {Itoa(d) : d \in 0..9}

(* 1<<63, the least literal that does not fit in an int64 *)
OverflowLiteral ==
    <<"9", "2", "2", "3", "3", "7", "2", "0", "3", "6",
      "8", "5", "4", "7", "7", "5", "8", "0", "8">>

(* one INT token: a run of decimal digits *)
IntegerInputs ==
    {<<Token("INT", run)>> : run \in UNION {[1..k -> Digits] : k \in 1..MaxDigits}}
        \cup {<<Token("INT", OverflowLiteral)>>}

(* the value a run of decimal digits denotes *)
RECURSIVE Decimal(_)
Decimal(run) ==
    IF run = <<>> THEN 0
    ELSE 10 * Decimal(SubSeq(run, 1, Len(run) - 1)) + DigitValue(run[Len(run)])

MaxParams == 3

ParameterTokens == {IdentToken("x"), IdentToken("y"), IntToken("1"), SymToken(",")}

(* fn ( list ) { } *)
FunctionTokens(list) ==
    <<Token("FUNCTION", <<"f", "n">>), SymToken("(")>> \o list
        \o <<SymToken(")"), SymToken("{"), SymToken("}")>>

ParameterLists == UNION {[1..k -> ParameterTokens] : k \in 0..MaxParams}

ParameterInputs == {FunctionTokens(list) : list \in ParameterLists}

(* if (x) { f(1, y) } else { [1, x][1] }   fn(x, y) { {1: x, y: 1} }       *)
(* let x = f([1], {y: 1});                                                 *)
Constructs ==
    {<<Token("IF", <<"i", "f">>), SymToken("("), IdentToken("x"), SymToken(")"), SymToken("{"),
       IdentToken("f"), SymToken("("), IntToken("1"), SymToken(","), IdentToken("y"),
       SymToken(")"), SymToken("}"), Token("ELSE", <<"e", "l", "s", "e">>), SymToken("{"),
       SymToken("["), IntToken("1"), SymToken(","), IdentToken("x"), SymToken("]"),
       SymToken("["), IntToken("1"), SymToken("]"), SymToken("}")>>,
     <<Token("FUNCTION", <<"f", "n">>), SymToken("("), IdentToken("x"), SymToken(","),
       IdentToken("y"), SymToken(")"), SymToken("{"), SymToken("{"), IntToken("1"),
       SymToken(":"), IdentToken("x"), SymToken(","), IdentToken("y"), SymToken(":"),
       IntToken("1"), SymToken("}"), SymToken("}")>>,
     <<LetToken, IdentToken("x"), SymToken("="), IdentToken("f"), SymToken("("), SymToken("["),
       IntToken("1"), SymToken("]"), SymToken(","), SymToken("{"), IdentToken("y"),
       SymToken(":"), IntToken("1"), SymToken("}"), SymToken(")"), SymToken(";")>>}

(* every stream that stops somewhere inside one of the constructs *)
PrefixInputs == UNION {{SubSeq(c, 1, n) : n \in 0..Len(c)} : c \in Constructs}

MaxTokens == 3

StreamTokens ==
    {IdentToken("x"), IntToken("1"), SymToken("("), SymToken("{"), SymToken("["),
     SymToken(","), SymToken(":"), SymToken("+"), SymToken(";"), LetToken,
     Token("FUNCTION", <<"f", "n">>), Token("IF", <<"i", "f">>)}

ShortInputs == UNION {[1..k -> StreamTokens] : k \in 0..MaxTokens}

TokenInputs == IntegerInputs \cup ParameterInputs \cup PrefixInputs \cup ShortInputs

SpecTokens == InitParser(TokenInputs) /\ [][NextParse]_vars

(* C25 as stated: the IntegerLiteral parsed from an INT token whose value  *)
(* fits in an int64 holds the decimal value of the digit run, also when    *)
(* the run has leading zeros; a run whose value does not fit records       *)
(* 'Could not parse "<literal>" as integer' and yields no node.            *)
C25_DecimalLiterals ==
    pc = "parsed" /\ tokens \in IntegerInputs =>
        LET run == tokens[1].Literal
        IN  IF run = OverflowLiteral
            THEN /\ errors = <<"Could not parse \"" \o JoinChars(run) \o "\" as integer">>
                 /\ \A i \in 1..Len(program) : program[i].Expr = NilNode
            ELSE /\ errors = <<>>
                 /\ Len(program) = 1
                 /\ program[1].node = "ExpressionStatement"
                 /\ program[1].Expr.node = "IntegerLiteral"
                 /\ program[1].Expr.Value = Decimal(run)

(* the tokens between ( and ) of fn ( list ) { } *)
ParameterList(input) == SubSeq(input, 3, Len(input) - 3)

(* IDENT , IDENT , ... IDENT, or nothing *)
IdentifiersSeparated(list) ==
    /\ list # <<>> => Len(list) % 2 = 1
    /\ \A i \in 1..Len(list) : list[i].Type = (IF i % 2 = 1 THEN "IDENT" ELSE ",")

(* C30 as stated: a parameter list that is parsed without a diagnostic is  *)
(* made of IDENT tokens separated by commas, and every entry of            *)
(* FunctionLiteral.Parameters comes from one of them; a list that holds    *)
(* another token kind where an identifier belongs records a diagnostic.    *)
C30_ParametersAreIdentifiers ==
    pc = "parsed" /\ tokens \in ParameterInputs /\ errors = <<>> =>
        /\ IdentifiersSeparated(ParameterList(tokens))
        /\ Len(program) = 1
        /\ program[1].Expr.node = "FunctionLiteral"
        /\ program[1].Expr.Parameters =
               [i \in 1..((Len(ParameterList(tokens)) + 1) \div 2) |->
                   JoinChars(ParameterList(tokens)[2 * i - 1].Literal)]

(* One turn of the loop of ParseProgram, as its test `for p.curToken.Type  *)
(* != token.EOF` sees it: the loop is left with the parser where it was, *)
(* or it is entered again with the parser at a later token.  Beyond the   *)
(* EOF token nextToken is called once for ParseProgram and once for each  *)
(* block the input ends in, which the input has a token for.              *)
LoopStep ==
    /\ pc = "parse"
    /\ \/ pc' = "parsed" /\ pos' = pos
       \/ pc' = "parse" /\ pos' \in (pos + 1)..(2 * Len(tokens) + 2)

(* ParseProgram runs its loop until the loop's test fails *)
SpecTokensFair ==
    InitParser(TokenInputs) /\ [][NextParse]_vars /\ WF_<<pc, pos>>(LoopStep)

(* C28: ParseProgram terminates on every token stream, with the current    *)
(* token at EOF: every step of ParseProgram is a turn of its loop that     *)
(* leaves the loop or leaves the parser at a later token than it started   *)
(* at, and the loop is left, for good, at an EOF token, also on the        *)
(* streams that end inside a block, a call, an array, a parameter list or  *)
(* a hash literal.                                                         *)
C28_ParseProgramTerminates ==
    /\ [][LoopStep]_vars
    /\ <>[](pc = "parsed" /\ curTokenIs([pos |-> pos, errors |-> errors], "EOF"))

(* a stream that ends after the colon of a pair of a hash literal *)
C28_Witness ==
    /\ pc = "parsed"
    /\ tokens \in PrefixInputs \ Constructs
    /\ Len(tokens) > 10
    /\ tokens[Len(tokens)].Type = ":"
    /\ errors # <<>>
    /\ pos > Len(tokens)

----------------------------------------------------------------------------
(* The value programs together *)
ValuePrograms == HashOrderPrograms \cup IdentifierPrograms \cup IntegerInfixPrograms
    \cup ComparisonPrograms \cup TruthinessPrograms
    \cup ArrayIndexPrograms \cup HashIndexPrograms
    \cup HashKeyPrograms \cup PushTailPrograms
    \cup ArrayBuiltinsPrograms \cup ExcessPrograms
    \cup LetPrograms \cup NoValuePrograms

SpecValues == InitEval(ValuePrograms) /\ [][Next]_vars

============================================================================
